---------------------------- MODULE Spec2Model ----------------------------
(***************************************************************************)
(* ClawView telemetry fact pipeline: the probe (probe.mjs), the outbound   *)
(* sync transmitter (sync-outbound.mjs) and the hook trigger handler.      *)
(*                                                                         *)
(* The state is the content of the files of the shared out-dir             *)
(* (~/.openclaw/clawview-probe), the sink, the clock and the position of   *)
(* every probe process.  Timestamps are epoch milliseconds.                *)
(***************************************************************************)
EXTENDS Integers, Sequences, FiniteSets, TLC

(***************************************************************************)
(* Bounds of the model.                                                    *)
(***************************************************************************)
NumKeys == 2          \* distinct dedupe keys
MaxStep == 2          \* the clock and the fact timestamps range over 0..MaxStep steps
MaxFacts == 2         \* records an external writer leaves in api-facts.jsonl between probe runs
MaxSnapshots == 2     \* probe runs (one snapshot row each)
MaxLines == 2         \* tool-end log lines the log sources supply to one probe run
batchSize == 1        \* CLAWVIEW_SYNC_BATCH_SIZE (default 200), kept small
MaxProcs == 2         \* probe processes started on the out-dir
BurstSlack == 2       \* a burst of tool-end lines in one millisecond exceeds KeyCap by this much
MaxCount == 1         \* unexpected restarts, and active critical errors, one cycle counts
MaxHookSteps == 3     \* steps of the clock between hook events
MaxMetricEvents == 2  \* events of any kind in a list that is aggregated
MaxGroupEvents == 7   \* successful calls in a list that is aggregated

(***************************************************************************)
(* Program constants.                                                      *)
(***************************************************************************)
HourMs == 60 * 60 * 1000
apiEventRetentionMs == 48 * HourMs
skillEventRetentionMs == 48 * HourMs
FutureSlackMs == 60000
KeyCap == 300
DEBOUNCE_MS == 45000

\* one step of the clock: a little over a day, so that two steps exceed the
\* 48 h retention horizon
StepMs == 25 * HourMs

\* the step of the clock between hook events: two steps exceed DEBOUNCE_MS, one
\* does not
HookStepMs == 30000
Steps == 0..MaxStep
Times == {k * StepMs : k \in Steps}
Keys == 1..NumKeys
NoKey == 0            \* the empty dedupe key ""
NoTs == -1            \* the empty snapshot timestamp ""

VARIABLES
  upstream,      \* which upstream sources are live: "logs", "apiFacts"
  syncUrl,       \* TRUE iff CLAWVIEW_SYNC_URL is set
  nowMs,         \* Date.now()
  apiFacts,      \* api-facts.jsonl
  apiEvents,     \* api-events.jsonl
  skillCursor,   \* skill-cursor.json
  skillEvents,   \* skill-events.jsonl
  snapshots,     \* snapshots-<day>.jsonl, all days, in append order
  syncCursor,    \* sync-cursor.json
  sink,          \* the API events the sink has accepted (2xx)
  lastSync,      \* what the last sync runOnce did
  lastProbe      \* what the last probe run did in its skill stage

pipelineVars == <<upstream, syncUrl, nowMs, apiFacts, apiEvents, skillCursor,
                  skillEvents, snapshots, syncCursor, sink, lastSync, lastProbe>>

VARIABLES
  lock,          \* probe.lock: <<>> when absent, else <<the number its content reads as>>
  pc,            \* where each probe process is
  mode,          \* how each process was started: "loop" (runLoop), "once" (--once)
  seen,          \* what lockAlive of the process read from probe.lock
  held,          \* the snapshot of the collectSnapshot the process is in
  buf,           \* what the retention step of the process read from skill-events.jsonl
  hookState,     \* hook-trigger-state.json
  hook,          \* the handler invocation: where it is, its Date.now(), what it decided
  SYNC_ENABLED,  \* FALSE iff CLAWVIEW_SYNC_ENABLED is "0"
  disk,          \* the data directory as the file system holds it: names and file contents
  io,            \* the open file of each writing process, and what the last read returned
  p0Status,      \* p0-core-live-status.json
  dashboard      \* the response of the dashboard function, and what the frontend made of it

lockVars == <<lock, pc, mode, seen, held, buf, hookState, hook, SYNC_ENABLED, dashboard, p0Status, disk, io>>

vars == <<pipelineVars, lockVars>>

(***************************************************************************)
(* Helpers: arrays, insertion-ordered Sets, stable sort.                   *)
(***************************************************************************)
\* v evaluated once and bound to x in F(x)
Bind(v, F(_)) == CHOOSE y \in {F(x) : x \in {v}} : TRUE

\* the record without the fields
Without(fact, fields) == [key \in (DOMAIN fact) \ fields |-> fact[key]]

\* the field with the value of the choice, or no field when the choice is <<>>
Optional(field, choice) == [key \in (IF choice = <<>> THEN {} ELSE {field}) |-> choice[1]]

Has(s, x) == \E i \in 1..Len(s) : s[i] = x

Elems(s) == {s[i] : i \in 1..Len(s)}

\* Set.prototype.add on an insertion-ordered Set
SetAdd(s, x) == IF Has(s, x) THEN s ELSE Append(s, x)

\* new Set(array)
RECURSIVE NewSet(_)
NewSet(arr) ==
  IF Len(arr) <= 1 THEN arr
  ELSE Bind(NewSet(SubSeq(arr, 1, Len(arr) \div 2)), LAMBDA left :
         left \o SelectSeq(NewSet(SubSeq(arr, Len(arr) \div 2 + 1, Len(arr))),
                           LAMBDA x : ~Has(left, x)))

\* array.slice(0, n)
SliceFirst(s, n) == IF Len(s) <= n THEN s ELSE SubSeq(s, 1, n)

\* array.slice(-n)
SliceLast(s, n) == IF Len(s) <= n THEN s ELSE SubSeq(s, Len(s) - n + 1, Len(s))

\* ev put into an ascending array behind every element that is not greater, so
\* that equal timestamps keep their order
InsertByTs(sorted, ev) ==
  Bind(Cardinality({i \in 1..Len(sorted) : sorted[i].ts_ms <= ev.ts_ms}),
       LAMBDA k : SubSeq(sorted, 1, k) \o <<ev>> \o SubSeq(sorted, k + 1, Len(sorted)))

\* array.sort((a, b) => a.ts_ms - b.ts_ms): ascending and stable
RECURSIVE SortByTs(_)
SortByTs(s) ==
  IF s = <<>> THEN <<>>
  ELSE Bind(SortByTs(SubSeq(s, 1, Len(s) - 1)), LAMBDA pre : InsertByTs(pre, s[Len(s)]))

(***************************************************************************)
(* sync-outbound.mjs                                                       *)
(***************************************************************************)
FallbackSyncCursor ==
  [api_last_ts_ms |-> 0, api_last_keys |-> <<>>, snapshot_last_ts |-> NoTs]

\* the outbound whitelist of API event fields
ALLOWED_API_EVENT_FIELDS ==
  {"ts", "provider", "endpoint_group", "status_code", "is_failure", "is_rate_limited",
   "dedupe_key"}

\* the fields of input that are in allowedKeys, with their values
pickAllowedFields(input, allowedKeys) ==
  [key \in (DOMAIN input) \cap allowedKeys |-> input[key]]

sanitizeApiEvent(ev) == pickAllowedFields(ev, ALLOWED_API_EVENT_FIELDS)

RECURSIVE SanitizeAll(_)
SanitizeAll(evs) ==
  IF evs = <<>> THEN <<>> ELSE <<sanitizeApiEvent(Head(evs))>> \o SanitizeAll(Tail(evs))

\* a loop body that keeps the keys of the earlier timestamp when the maximum rises
SelectAcceptKeepKeys(acc, ev) ==
  [unsent |-> Append(acc.unsent, ev),
   maxTs |-> IF ev.ts_ms > acc.maxTs THEN ev.ts_ms ELSE acc.maxTs,
   maxTsKeys |-> IF ev.ts_ms >= acc.maxTs THEN SetAdd(acc.maxTsKeys, ev.dedupe_key)
                 ELSE acc.maxTsKeys]

\* the loop body of selectUnsentApiEvents for one event that passed the filter
SelectAccept(acc, ev) ==
  [unsent |-> Append(acc.unsent, ev),
   maxTs |-> IF ev.ts_ms > acc.maxTs THEN ev.ts_ms ELSE acc.maxTs,
   maxTsKeys |-> IF ev.ts_ms > acc.maxTs THEN <<ev.dedupe_key>>
                 ELSE IF ev.ts_ms = acc.maxTs THEN SetAdd(acc.maxTsKeys, ev.dedupe_key)
                 ELSE acc.maxTsKeys]

\* a filter that passes over the whole boundary timestamp, whatever the key
SelectSkipsBoundary(ev, lastTs, lastKeys) ==
  \/ ev.dedupe_key = NoKey
  \/ ev.ts_ms <= lastTs

\* the filter of selectUnsentApiEvents: TRUE iff the event is skipped
SelectSkips(ev, lastTs, lastKeys) ==
  \/ ev.dedupe_key = NoKey
  \/ ev.ts_ms < lastTs
  \/ ev.ts_ms = lastTs /\ Has(lastKeys, ev.dedupe_key)

\* the loop leaving one event after the batch is full
RECURSIVE SelectLoopBreakLate(_, _, _, _, _)
SelectLoopBreakLate(sorted, i, lastTs, lastKeys, acc) ==
  IF i > Len(sorted) THEN acc
  ELSE IF SelectSkips(sorted[i], lastTs, lastKeys)
       THEN SelectLoopBreakLate(sorted, i + 1, lastTs, lastKeys, acc)
       ELSE Bind(SelectAccept(acc, sorted[i]),
                 LAMBDA next : IF Len(next.unsent) > batchSize THEN next
                               ELSE SelectLoopBreakLate(sorted, i + 1, lastTs, lastKeys, next))

RECURSIVE SelectLoop(_, _, _, _, _)
SelectLoop(sorted, i, lastTs, lastKeys, acc) ==
  IF i > Len(sorted) THEN acc
  ELSE IF SelectSkips(sorted[i], lastTs, lastKeys)
       THEN SelectLoop(sorted, i + 1, lastTs, lastKeys, acc)
       ELSE Bind(SelectAccept(acc, sorted[i]),
                 LAMBDA next : IF Len(next.unsent) >= batchSize THEN next
                               ELSE SelectLoop(sorted, i + 1, lastTs, lastKeys, next))

selectUnsentApiEvents(allEvents, cursor) ==
  Bind(<<cursor.api_last_ts_ms, NewSet(cursor.api_last_keys), SortByTs(allEvents)>>,
    LAMBDA in :
      Bind(SelectLoop(in[3], 1, in[1], in[2],
                      [unsent |-> <<>>, maxTs |-> in[1], maxTsKeys |-> in[2]]),
        LAMBDA acc :
          [unsent |-> acc.unsent,
           nextCursor |-> [api_last_ts_ms |-> acc.maxTs,
                           api_last_keys |-> SliceLast(acc.maxTsKeys, KeyCap)]]))

\* postPayload: "skipped" without a URL, "ok" on 2xx, and it throws otherwise
\* (resp is what the sink or the network answers: "2xx", "500", "neterr")
postPayloadNoThrow(resp) ==
  IF ~syncUrl THEN "skipped" ELSE "ok"

postPayload(resp) ==
  IF ~syncUrl THEN "skipped"
  ELSE IF resp = "2xx" THEN "ok" ELSE "throw"

\* the rows of the snapshot file of the current UTC day
DayOf(ts) == ts \div (24 * HourMs)

snapshotRows(now) == SelectSeq(snapshots, LAMBDA r : DayOf(r.ts) = DayOf(now))

\* runOnce posting the latest snapshot row whatever the cursor says
runOnceResultResendsSnapshot(cursor, allApiEvents, rows, apiResp, snapResp) ==
  Bind(selectUnsentApiEvents(allApiEvents, cursor), LAMBDA sel :
  Bind(IF Len(sel.unsent) > 0 THEN postPayload(apiResp) ELSE "none", LAMBDA apiRes :
  Bind(IF Len(rows) > 0 THEN rows[Len(rows)].ts ELSE NoTs, LAMBDA latestTs :
  Bind(apiRes # "throw" /\ latestTs # NoTs, LAMBDA snapDue :
  Bind(IF snapDue THEN postPayload(snapResp) ELSE "none", LAMBDA snapRes :
  Bind(IF snapRes = "ok" THEN [cursor EXCEPT !.snapshot_last_ts = latestTs] ELSE cursor,
       LAMBDA cursor2 :
    [batch |-> sel.unsent, items |-> SanitizeAll(sel.unsent),
     apiPosted |-> Len(sel.unsent) > 0 /\ syncUrl, apiRes |-> apiRes,
     snapPosted |-> snapDue /\ syncUrl, snapRes |-> snapRes,
     written |-> apiRes # "throw" /\ snapRes # "throw",
     cursor |-> IF apiRes = "ok"
                THEN [cursor2 EXCEPT !.api_last_ts_ms = sel.nextCursor.api_last_ts_ms,
                                     !.api_last_keys = sel.nextCursor.api_last_keys]
                ELSE cursor2]))))))

\* runOnce up to its cursor write.  written = FALSE: a postPayload threw and the
\* process ended before writeJsonAtomic.
runOnceResult(cursor, allApiEvents, rows, apiResp, snapResp) ==
  Bind(selectUnsentApiEvents(allApiEvents, cursor), LAMBDA sel :
  Bind(IF Len(sel.unsent) > 0 THEN postPayload(apiResp) ELSE "none", LAMBDA apiRes :
  Bind(IF Len(rows) > 0 THEN rows[Len(rows)].ts ELSE NoTs, LAMBDA latestTs :
  Bind(apiRes # "throw" /\ latestTs # NoTs /\ latestTs # cursor.snapshot_last_ts,
       LAMBDA snapDue :
  Bind(IF snapDue THEN postPayload(snapResp) ELSE "none", LAMBDA snapRes :
  Bind(IF snapRes = "ok" THEN [cursor EXCEPT !.snapshot_last_ts = latestTs] ELSE cursor,
       LAMBDA cursor2 :
    [batch |-> sel.unsent, items |-> SanitizeAll(sel.unsent),
     apiPosted |-> Len(sel.unsent) > 0 /\ syncUrl, apiRes |-> apiRes,
     snapPosted |-> snapDue /\ syncUrl, snapRes |-> snapRes,
     written |-> apiRes # "throw" /\ snapRes # "throw",
     cursor |-> IF apiRes = "ok"
                THEN [cursor2 EXCEPT !.api_last_ts_ms = sel.nextCursor.api_last_ts_ms,
                                     !.api_last_keys = sel.nextCursor.api_last_keys]
                ELSE cursor2]))))))

Responses == {"2xx", "500", "neterr"}

\* runOnce taking a skipped post for a delivered one
runOnceFilesSkippedDelivered(apiResp, snapResp) ==
  \E r \in {runOnceResult(syncCursor, apiEvents, snapshotRows(nowMs), apiResp, snapResp)} :
     /\ syncCursor' = IF r.apiRes = "skipped"
                      THEN selectUnsentApiEvents(apiEvents, syncCursor).nextCursor
                           @@ r.cursor
                      ELSE IF r.written THEN r.cursor ELSE syncCursor
     /\ sink' = IF r.apiRes = "ok" THEN sink \cup Elems(r.items) ELSE sink
     /\ lastSync' = [apiResp |-> IF r.apiPosted THEN apiResp ELSE "none",
                     snapResp |-> IF r.snapPosted THEN snapResp ELSE "none",
                     batch |-> r.batch]

\* what runOnce does to the files and to the sink
runOnceFiles(apiResp, snapResp) ==
  \E r \in {runOnceResult(syncCursor, apiEvents, snapshotRows(nowMs), apiResp, snapResp)} :
     /\ syncCursor' = IF r.written THEN r.cursor ELSE syncCursor
     /\ sink' = IF r.apiRes = "ok" THEN sink \cup Elems(r.items) ELSE sink
     /\ lastSync' = [apiResp |-> IF r.apiPosted THEN apiResp ELSE "none",
                     snapResp |-> IF r.snapPosted THEN snapResp ELSE "none",
                     batch |-> r.batch]

RunOnce(apiResp, snapResp) ==
  /\ runOnceFiles(apiResp, snapResp)
  /\ UNCHANGED <<upstream, syncUrl, nowMs, apiFacts, apiEvents, skillCursor,
                 skillEvents, snapshots, lastProbe>>
  /\ UNCHANGED lockVars

SyncOnce == \E apiResp \in Responses, snapResp \in Responses : RunOnce(apiResp, snapResp)


(***************************************************************************)
(* probe.mjs: the API fact stage (collectApiMetrics -> loadApiFactEvents)  *)
(***************************************************************************)
\* a JSON null; a value v that may be null is written <<v>>
Null == <<>>

\* A string value is a sequence of pieces, as far as the sensitive patterns and
\* JSON escaping tell them apart: "w" a run of harmless characters, "token" one of
\* the words token, authorization, cookie ..., "=" a ':' or '=', "q" a double
\* quote, "bs" a backslash, "secret" a run of 8 or more secret characters.
Plain == <<"w">>

TokenKv == <<"token", "=", "secret">>

TokenKvQuoted == <<"token", "=", "q", "secret", "q">>

\* the third of API_FACT_SENSITIVE_PATTERNS:
\* \b(?:token|...|cookie)\b\s*[:=]\s*["']?[a-z0-9._~+/=-]{8,}
containsSensitiveApiFactValue(text) ==
  \E i \in 1..Len(text) :
     /\ text[i] = "token"
     /\ i + 2 <= Len(text)
     /\ text[i + 1] = "="
     /\ \/ text[i + 2] = "secret"
        \/ i + 3 <= Len(text) /\ text[i + 2] = "q" /\ text[i + 3] = "secret"

\* JSON.stringify of a string: quotes around it, '"' and '\' escaped
RECURSIVE JsonEscape(_)
JsonEscape(text) ==
  IF text = <<>> THEN <<>>
  ELSE (IF Head(text) \in {"q", "bs"} THEN <<"bs", Head(text)>> ELSE <<Head(text)>>)
       \o JsonEscape(Tail(text))

JsonString(text) == <<"q">> \o JsonEscape(text) \o <<"q">>

JsonMember(name, text) == <<"q", "w", "q", "=">> \o JsonString(text)

\* the dedupe keys a writer that does not filter may use besides Keys, and how
\* a dedupe key is spelled
SecretKey == NumKeys + 1

QuotedSecretKey == NumKeys + 2

KeyText(k) ==
  IF k = NoKey THEN <<>>
  ELSE IF k = SecretKey THEN TokenKv
  ELSE IF k = QuotedSecretKey THEN TokenKvQuoted
  ELSE Plain

API_EVENT_ALLOWED_FIELDS ==
  {"ts", "provider", "method", "host", "path_template", "endpoint_group",
   "status_code", "latency_ms", "is_429", "is_failure", "dedupe_key", "request_id"}

\* A raw fact of api-facts.jsonl is a record with the fields ts, provider,
\* endpoint_group, path_template and dedupe_key, possibly status_code, is_429 and
\* is_failure, and possibly the non-whitelisted field headers; the other
\* whitelisted fields (method, host, latency_ms, request_id) are present and
\* harmless and are left out.  provider and endpoint_group are lower-case words.
\* JSON.stringify(raw), as far as the string values that may be sensitive go:
JsonStringify(raw) ==
  JsonMember("path_template", raw.path_template)
  \o <<"w">> \o JsonMember("dedupe_key", KeyText(raw.dedupe_key))
  \o (IF "headers" \in DOMAIN raw THEN <<"w">> \o JsonMember("headers", raw.headers)
      ELSE <<>>)

sanitizeApiFactFields(raw) == pickAllowedFields(raw, API_EVENT_ALLOWED_FIELDS)

\* a JSON value with its typeof: the number n, and the string that spells n
Num(n) == [typeof |-> "number", value |-> n]

Str(n) == [typeof |-> "string", value |-> n]

\* the JSON value null
NullValue == [typeof |-> "object", value |-> 0]

\* legacy other/others are mapped to unknown
unknownIfOther(name) == IF name \in {"other", "others"} THEN "unknown" ELSE name

\* statusCode: the number when status_code is a number in [100, 599], else null
statusCodeOf(sanitized) ==
  IF /\ "status_code" \in DOMAIN sanitized
     /\ sanitized.status_code.typeof = "number"
     /\ sanitized.status_code.value >= 100
     /\ sanitized.status_code.value <= 599
  THEN sanitized.status_code
  ELSE NullValue

\* is429 = sanitized.is_429 === true (a flag of the model is a boolean or absent)
is429Of(sanitized) == "is_429" \in DOMAIN sanitized /\ sanitized.is_429 = TRUE

\* isFailure: the flag when it is a boolean, else true without a status code,
\* else statusCode >= 400
isFailureOf(sanitized, statusCode) ==
  IF "is_failure" \in DOMAIN sanitized THEN sanitized.is_failure
  ELSE IF statusCode = NullValue THEN TRUE
  ELSE statusCode.value >= 400

\* The ts of a raw fact is a JSON number or a string.  The instants of the
\* model are whole milliseconds counted from a day after 2001-09-09, so that a
\* count of milliseconds is above 1e12 and a count of seconds is not; `read`
\* says which of the two a number or a string of digits is ("ms", "s"), or
\* that the string is an ISO-8601 date ("iso") or no date at all ("none").
\* half = 1 adds half a unit to the count.
TsValue(typeof, read, value, half) ==
  [typeof |-> typeof, read |-> read, value |-> value, half |-> half]

\* the ISO-8601 string of the instant n
IsoString(n) == TsValue("string", "iso", n, 0)

\* toMs: a number, or a string of digits, above 1e12 is taken as milliseconds
\* and one at most 1e12 as seconds, any other string goes to Date.parse; the
\* answer is <<>> for NaN and else the milliseconds as a whole part and a half
toMs(value) ==
  IF value.read = "ms" THEN <<[ms |-> value.value, half |-> value.half]>>
  ELSE IF value.read = "s"
  THEN <<[ms |-> value.value * 1000 + value.half * 500, half |-> 0]>>
  ELSE IF value.read = "iso" THEN <<[ms |-> value.value, half |-> 0]>>
  ELSE <<>>

\* new Date(tsMs).toISOString(): a Date keeps whole milliseconds
toISOString(t) == IsoString(t.ms)

\* ts_ms: tsMs, the number as it is; its whole part is the field ts_ms and a
\* half millisecond is kept beside it in ts_ms_half
tsMsFields(t) ==
  [key \in (IF t.half = 0 THEN {"ts_ms"} ELSE {"ts_ms", "ts_ms_half"}) |->
     IF key = "ts_ms" THEN t.ms ELSE t.half]

\* the event normalizeApiFactEvent returns for a fact that passed its checks
apiFactEventOf(sanitized) ==
  Bind(statusCodeOf(sanitized), LAMBDA statusCode :
  Bind(toMs(sanitized.ts)[1], LAMBDA t :
    tsMsFields(t) @@
    [ts |-> toISOString(t),
     provider |-> unknownIfOther(sanitized.provider),
     path_template |-> sanitized.path_template,
     endpoint_group |-> unknownIfOther(sanitized.endpoint_group),
     status_code |-> statusCode,
     is_429 |-> is429Of(sanitized),
     is_failure |-> isFailureOf(sanitized, statusCode),
     dedupe_key |-> sanitized.dedupe_key]))

\* normalizeApiFactEvent without the check of the raw key set
normalizeApiFactEventPick(raw) ==
  IF containsSensitiveApiFactValue(JsonStringify(raw))
  THEN [event |-> <<>>, reason |-> "sensitive"]
  ELSE Bind(sanitizeApiFactFields(raw), LAMBDA sanitized :
    IF containsSensitiveApiFactValue(JsonStringify(sanitized))
    THEN [event |-> <<>>, reason |-> "sensitive"]
    ELSE IF toMs(sanitized.ts) = <<>>
    THEN [event |-> <<>>, reason |-> "invalid"]
    ELSE IF \/ sanitized.provider = "" \/ sanitized.endpoint_group = ""
            \/ sanitized.path_template = <<>> \/ sanitized.dedupe_key = NoKey
    THEN [event |-> <<>>, reason |-> "invalid"]
    ELSE IF containsSensitiveApiFactValue(sanitized.path_template)
    THEN [event |-> <<>>, reason |-> "sensitive"]
    ELSE [event |-> <<apiFactEventOf(sanitized)>>, reason |-> "ok"])

normalizeApiFactEvent(raw) ==
  IF containsSensitiveApiFactValue(JsonStringify(raw))
  THEN [event |-> <<>>, reason |-> "sensitive"]
  ELSE IF (DOMAIN raw) \ API_EVENT_ALLOWED_FIELDS # {}
  THEN [event |-> <<>>, reason |-> "invalid"]
  ELSE Bind(sanitizeApiFactFields(raw), LAMBDA sanitized :
    IF containsSensitiveApiFactValue(JsonStringify(sanitized))
    THEN [event |-> <<>>, reason |-> "sensitive"]
    ELSE IF toMs(sanitized.ts) = <<>>
    THEN [event |-> <<>>, reason |-> "invalid"]
    ELSE IF \/ sanitized.provider = "" \/ sanitized.endpoint_group = ""
            \/ sanitized.path_template = <<>> \/ sanitized.dedupe_key = NoKey
    THEN [event |-> <<>>, reason |-> "invalid"]
    ELSE IF containsSensitiveApiFactValue(sanitized.path_template)
    THEN [event |-> <<>>, reason |-> "sensitive"]
    ELSE [event |-> <<apiFactEventOf(sanitized)>>, reason |-> "ok"])

\* a dedupe that lets the later line win on equal timestamps
DedupeSetLastWins(byKey, event) ==
  IF \E i \in 1..Len(byKey) : byKey[i].dedupe_key = event.dedupe_key
  THEN [i \in 1..Len(byKey) |->
          IF byKey[i].dedupe_key = event.dedupe_key /\ event.ts_ms >= byKey[i].ts_ms
          THEN event ELSE byKey[i]]
  ELSE Append(byKey, event)

\* dedupedByKey.set(key, event) when the key is new or the event is newer; a Map
\* keeps the position of a key that is set again
DedupeSet(byKey, event) ==
  IF \E i \in 1..Len(byKey) : byKey[i].dedupe_key = event.dedupe_key
  THEN [i \in 1..Len(byKey) |->
          IF byKey[i].dedupe_key = event.dedupe_key /\ event.ts_ms > byKey[i].ts_ms
          THEN event ELSE byKey[i]]
  ELSE Append(byKey, event)

RECURSIVE DedupeLoop(_, _, _, _)
DedupeLoop(rawFacts, i, now, byKey) ==
  IF i > Len(rawFacts) THEN byKey
  ELSE Bind(normalizeApiFactEvent(rawFacts[i]), LAMBDA n :
         IF n.event = <<>> THEN DedupeLoop(rawFacts, i + 1, now, byKey)
         ELSE IF \/ n.event[1].ts_ms < now - apiEventRetentionMs
                 \/ n.event[1].ts_ms > now + FutureSlackMs
              THEN DedupeLoop(rawFacts, i + 1, now, byKey)
              ELSE Bind(DedupeSet(byKey, n.event[1]),
                        LAMBDA next : DedupeLoop(rawFacts, i + 1, now, next)))

RECURSIVE SanitizeFacts(_)
SanitizeFacts(evs) ==
  IF evs = <<>> THEN <<>>
  ELSE <<sanitizeApiFactFields(Head(evs))>> \o SanitizeFacts(Tail(evs))

\* how many raw facts normalizeApiFactEvent answers with one of the reasons
CountReason(rawFacts, reasons) ==
  Cardinality({i \in 1..Len(rawFacts) :
                 normalizeApiFactEvent(rawFacts[i]).reason \in reasons})

\* the raw facts normalizeApiFactEvent rejects, each with the reason given
RejectedFacts(rawFacts) ==
  Bind([i \in 1..Len(rawFacts) |->
          [raw |-> rawFacts[i], reason |-> normalizeApiFactEvent(rawFacts[i]).reason]],
       LAMBDA answers : SelectSeq(answers, LAMBDA a : a.reason # "ok"))

loadApiFactEvents(rawFacts, now) ==
  Bind(DedupeLoop(rawFacts, 1, now, <<>>), LAMBDA dedupedByKey :
  Bind(SortByTs(dedupedByKey), LAMBDA allEvents :
    [events |-> allEvents,
     retainedFacts |-> SanitizeFacts(allEvents),
     sourceConnected |-> Len(rawFacts) > 0,
     validFactCount |-> CountReason(rawFacts, {"ok"}),
     sensitiveDropped |-> CountReason(rawFacts, {"sensitive"}),
     invalidDropped |-> CountReason(rawFacts, {"invalid"})]))

\* a ratio that is null when there is nothing to divide by
RatioNullOverZero(connected, num, den) ==
  IF connected /\ den > 0 THEN <<[num |-> num, den |-> den]>> ELSE Null

\* a metric value is null or <<v>>; a ratio is kept as the pair [num, den] of
\* the division the code makes, 0 as [num |-> 0, den |-> 1]
Ratio(connected, num, den) ==
  IF connected /\ den > 0 THEN <<[num |-> num, den |-> den]>>
  ELSE IF connected THEN <<[num |-> 0, den |-> 1]>>
  ELSE Null

\* tokyoDayRangeMs: the calendar day of Asia/Tokyo (UTC+9, no daylight saving)
\* that holds the reference time
tokyoDayRangeMs(reference) ==
  Bind(((reference + 9 * HourMs) \div (24 * HourMs)) * (24 * HourMs) - 9 * HourMs,
       LAMBDA start : [startMs |-> start, endMs |-> start + 24 * HourMs])

\* a trailing window without its upper end
in24hOpenEnd(ts, now) == ts >= now - 24 * HourMs

\* in24h = ts >= last24hStart && ts <= nowMs
in24hOf(ts, now) == ts >= now - 24 * HourMs /\ ts <= now

inTodayOf(ts, now) ==
  Bind(tokyoDayRangeMs(now), LAMBDA tokyo : ts >= tokyo.startMs /\ ts < tokyo.endMs)

\* key = `${ev.provider}/${ev.endpoint_group}`
groupKey(ev) == ev.provider \o "/" \o ev.endpoint_group

\* byGroup.get(key) ?? { ..., calls_24h: 0, ... }; byGroup is the sequence of the
\* values of the Map, in insertion order
groupGet(byGroup, ev) ==
  IF \E i \in 1..Len(byGroup) : byGroup[i].endpoint_group = groupKey(ev)
  THEN byGroup[CHOOSE i \in 1..Len(byGroup) : byGroup[i].endpoint_group = groupKey(ev)]
  ELSE [provider |-> ev.provider, endpoint_group |-> groupKey(ev), calls_24h |-> 0,
        calls_today_tokyo |-> 0, failures_24h |-> 0, rate_limits_24h |-> 0]

\* byGroup.set(key, g): a key that is set again keeps its position
groupSet(byGroup, g) ==
  IF \E i \in 1..Len(byGroup) : byGroup[i].endpoint_group = g.endpoint_group
  THEN [i \in 1..Len(byGroup) |->
          IF byGroup[i].endpoint_group = g.endpoint_group THEN g ELSE byGroup[i]]
  ELSE Append(byGroup, g)

Inc(cond) == IF cond THEN 1 ELSE 0

ApiCountersZero ==
  [total24h |-> 0, totalToday |-> 0, success24h |-> 0, failed24h |-> 0,
   rateLimited24h |-> 0, unknown24h |-> 0, byGroup |-> <<>>]

\* the body of the loop over the events, for one event
apiCount(acc, ev, now) ==
  \* in24h, inToday
  Bind(<<in24hOf(ev.ts_ms, now), inTodayOf(ev.ts_ms, now)>>, LAMBDA in :
    IF ~in[1] /\ ~in[2] THEN acc
    ELSE Bind(groupGet(acc.byGroup, ev), LAMBDA g :
      [total24h |-> acc.total24h + Inc(in[1]),
       totalToday |-> acc.totalToday + Inc(in[2]),
       success24h |-> acc.success24h + Inc(in[1] /\ ~ev.is_failure),
       failed24h |-> acc.failed24h + Inc(in[1] /\ ev.is_failure),
       rateLimited24h |-> acc.rateLimited24h + Inc(in[1] /\ ev.is_429),
       unknown24h |-> acc.unknown24h
                      + Inc(in[1] /\ (ev.provider = "unknown" \/ ev.endpoint_group = "unknown")),
       byGroup |-> groupSet(acc.byGroup,
                     [g EXCEPT !.calls_24h = @ + Inc(in[1]),
                               !.calls_today_tokyo = @ + Inc(in[2]),
                               !.failures_24h = @ + Inc(in[1] /\ ev.is_failure),
                               !.rate_limits_24h = @ + Inc(in[1] /\ ev.is_429)])]))

RECURSIVE apiCountLoop(_, _, _, _)
apiCountLoop(events, i, now, acc) ==
  IF i > Len(events) THEN acc
  ELSE Bind(apiCount(acc, events[i], now),
            LAMBDA next : apiCountLoop(events, i + 1, now, next))

\* g put into a descending array in front of the elements that are not greater
insertByCallsBeforeEqual(sorted, g) ==
  Bind(Cardinality({i \in 1..Len(sorted) : sorted[i].calls_24h > g.calls_24h}),
       LAMBDA k : SubSeq(sorted, 1, k) \o <<g>> \o SubSeq(sorted, k + 1, Len(sorted)))

\* g put into a descending array behind every element that is not smaller, so
\* that equal counts keep their order
insertByCalls(sorted, g) ==
  Bind(Cardinality({i \in 1..Len(sorted) : sorted[i].calls_24h >= g.calls_24h}),
       LAMBDA k : SubSeq(sorted, 1, k) \o <<g>> \o SubSeq(sorted, k + 1, Len(sorted)))

\* array.sort((a, b) => b.calls_24h - a.calls_24h): descending and stable
RECURSIVE sortByCalls(_)
sortByCalls(groups) ==
  IF groups = <<>> THEN <<>>
  ELSE Bind(sortByCalls(SubSeq(groups, 1, Len(groups) - 1)),
            LAMBDA pre : insertByCalls(pre, groups[Len(groups)]))

\* array.slice(0, n)
sliceHead(s, n) == IF Len(s) <= n THEN s ELSE SubSeq(s, 1, n)

TopGroups == 5

\* what computeApiMetricsFromFactEvents returns from its counters
apiMetricsOf(hasEventStore, acc, events, stats) ==
  [api_metrics_available |-> hasEventStore,
   api_call_total_24h |-> IF hasEventStore THEN <<acc.total24h>> ELSE Null,
   api_call_total_today_tokyo |-> IF hasEventStore THEN <<acc.totalToday>> ELSE Null,
   api_success_total_24h |-> IF hasEventStore THEN <<acc.success24h>> ELSE Null,
   api_failure_total_24h |-> IF hasEventStore THEN <<acc.failed24h>> ELSE Null,
   api_rate_limit_total_24h |-> IF hasEventStore THEN <<acc.rateLimited24h>> ELSE Null,
   api_error_rate_24h |-> Ratio(hasEventStore, acc.failed24h, acc.total24h),
   api_429_ratio_24h |-> Ratio(hasEventStore, acc.rateLimited24h, acc.total24h),
   api_unknown_rate_24h |-> Ratio(hasEventStore, acc.unknown24h, acc.total24h),
   endpoint_group_top5_calls_24h |->
     IF hasEventStore THEN <<sliceHead(sortByCalls(acc.byGroup), TopGroups)>> ELSE Null,
   api_collection_mode |->
     IF hasEventStore THEN "fact-event-structured" ELSE "fact-only-not-connected",
   api_events_retained |-> Len(events),
   api_events_valid_fact_total |-> stats.validFactCount,
   api_events_sensitive_dropped |-> stats.sensitiveDropped,
   api_events_invalid_dropped |-> stats.invalidDropped]

\* the aggregation with null wherever no event is in the trailing 24 h
computeApiMetricsNullWhenEmpty(events, now, sourceConnected, stats) ==
  Bind(apiCountLoop(events, 1, now, ApiCountersZero), LAMBDA acc :
    apiMetricsOf(acc.total24h > 0, acc, events, stats))

computeApiMetricsFromFactEvents(events, now, sourceConnected, stats) ==
  Bind(apiCountLoop(events, 1, now, ApiCountersZero), LAMBDA acc :
    apiMetricsOf(sourceConnected, acc, events, stats))

\* the API part of a snapshot taken while the fact source has never been written
NoApiMetrics ==
  computeApiMetricsFromFactEvents(<<>>, 0, FALSE,
    [validFactCount |-> 0, sensitiveDropped |-> 0, invalidDropped |-> 0])

(***************************************************************************)
(* probe.mjs: the skill fact stage (collectSkillUsageMetrics)              *)
(***************************************************************************)
FallbackSkillCursor == [last_ts_ms |-> 0, last_keys |-> <<>>]

\* A tool-end log line that resolves to a skill read is [call, ts]: call stands for
\* runId|toolCallId|skillName|outcome (the text that is hashed into dedupe_key) and
\* ts for the timestamp of the matching tool result in the session file.
LogLines == [call : Keys, ts : Times]

\* factEvents: one fact per tool-end line of logEntries, in order
RECURSIVE factEventsOf(_)
factEventsOf(logEntries) ==
  IF logEntries = <<>> THEN <<>>
  ELSE <<[ts_ms |-> Head(logEntries).ts, dedupe_key |-> Head(logEntries).call]>>
       \o factEventsOf(Tail(logEntries))

\* the incremental filter: TRUE iff the fact is skipped
SkillSkips(ev, lastTs, lastKeys) ==
  \/ ev.ts_ms < lastTs
  \/ ev.ts_ms = lastTs /\ Has(lastKeys, ev.dedupe_key)

RECURSIVE SkillLoop(_, _, _, _, _)
SkillLoop(sorted, i, lastTs, lastKeys, acc) ==
  IF i > Len(sorted) THEN acc
  ELSE IF SkillSkips(sorted[i], lastTs, lastKeys)
       THEN SkillLoop(sorted, i + 1, lastTs, lastKeys, acc)
       ELSE Bind(SelectAccept(acc, sorted[i]),
                 LAMBDA next : SkillLoop(sorted, i + 1, lastTs, lastKeys, next))

\* a cursor advance that starts its maximum at 0 and always writes the cursor
skillAdvanceFromZero(factEvents, cursor) ==
  Bind(<<cursor.last_ts_ms, NewSet(cursor.last_keys), SortByTs(factEvents)>>,
    LAMBDA in :
      Bind(SkillLoop(in[3], 1, in[1], in[2],
                     [unsent |-> <<>>, maxTs |-> 0, maxTsKeys |-> <<>>]),
        LAMBDA acc :
          [incremental |-> acc.unsent,
           cursor |-> [last_ts_ms |-> acc.maxTs,
                       last_keys |-> SliceLast(acc.maxTsKeys, KeyCap)]]))

\* the cursor advance of collectSkillUsageMetrics
skillAdvance(factEvents, cursor) ==
  Bind(<<cursor.last_ts_ms, NewSet(cursor.last_keys), SortByTs(factEvents)>>,
    LAMBDA in :
      Bind(SkillLoop(in[3], 1, in[1], in[2],
                     [unsent |-> <<>>, maxTs |-> in[1], maxTsKeys |-> in[2]]),
        LAMBDA acc :
          [incremental |-> acc.unsent,
           cursor |-> IF acc.maxTs >= in[1]
                      THEN [last_ts_ms |-> acc.maxTs,
                            last_keys |-> SliceLast(acc.maxTsKeys, KeyCap)]
                      ELSE cursor]))

\* the append alone, without the retention rewrite
skillCompactAppendOnly(events, incremental, now) == events \o incremental

\* append, then the retention rewrite of skill-events.jsonl
skillCompact(events, incremental, now) ==
  SelectSeq(events \o incremental, LAMBDA e : e.ts_ms >= now - skillEventRetentionMs)

\* sourceConnected = readToolEnds.length > 0 || allEvents.length > 0, as the mode
collectionModeOf(readToolEnds, allEvents) ==
  IF Len(readToolEnds) > 0 \/ Len(allEvents) > 0
  THEN "fact-event-structured" ELSE "fact-only-not-connected"

\* logEntries = [...baseLogEntries, ...runtimeEmbeddedEntries]
collectSkillUsageMetrics(baseLogEntries, runtimeEmbeddedEntries, cursor, events, now) ==
  Bind(skillAdvance(factEventsOf(baseLogEntries \o runtimeEmbeddedEntries), cursor),
    LAMBDA adv :
      Bind(skillCompact(events, adv.incremental, now), LAMBDA allEvents :
        [incremental |-> adv.incremental,
         cursor |-> adv.cursor,
         events |-> allEvents,
         skill_calls_collection_mode |->
           collectionModeOf(baseLogEntries \o runtimeEmbeddedEntries, allEvents)]))

(***************************************************************************)
(* probe.mjs --once: collectSnapshot, then appendSnapshot                  *)
(***************************************************************************)
SeqsUpTo(S, n) == UNION {[1..k -> S] : k \in 0..n}

\* the log windows the two log sources can supply to one run: nothing when the
\* log source is not reachable
\* tool-end lines of the calls first..last, all resolved to one timestamp
Burst(first, last, ts) == [i \in 1..(last - first + 1) |-> [call |-> first + i - 1, ts |-> ts]]

\* the next lines of a burst whose first KeyCap - 1 lines earlier runs have seen
BurstWindows ==
  {<<Burst(first, last, ts), <<>>>> :
     first \in KeyCap..(KeyCap + BurstSlack), last \in KeyCap..(KeyCap + BurstSlack),
     ts \in Times}

\* the one tool-end line of a log source that reports a single skill read
SkillLine == <<[call |-> 1, ts |-> 0]>>

LogWindows ==
  IF "logs" \in upstream
  THEN {w \in SeqsUpTo(LogLines, MaxLines) \X SeqsUpTo(LogLines, MaxLines) :
          Len(w[1]) + Len(w[2]) <= MaxLines}
  ELSE IF "burst" \in upstream THEN BurstWindows
  ELSE IF "skillLog" \in upstream THEN {<<(<<>>), (<<>>)>>, <<SkillLine, (<<>>)>>}
  ELSE {<<(<<>>), (<<>>)>>}

\* the openclaw commands that collectSnapshot runs outside a try/catch (skills
\* list, cron list, channels logs, logs) fail when the CLI or the log source is
\* not reachable
Unreachable == upstream \cap {"cliDown", "logsDown"}

\* collectGatewayRuntime: what `openclaw gateway status --json` answers, "throws"
\* when the command fails
GatewayAnswers ==
  IF upstream \cap {"cliDown", "gatewayDown"} # {} THEN {"throws"}
  ELSE IF "controlPlane" \in upstream THEN {"rpcOk", "rpcNotOk"}
  ELSE {"rpcOk"}

collectGatewayRuntime(answer) == [gateway_rpc_ok |-> answer = "rpcOk"]

\* what one cycle reads of the monitored system: the gateway answer, the count
\* of unexpected restarts in the log entries of the last 24 h and the count of
\* active critical system errors in the channel logs
StatusInputs ==
  [gateway : GatewayAnswers,
   restart_unexpected_count_24h :
     IF "controlPlane" \in upstream THEN 0..MaxCount ELSE {0},
   errors_critical_active_count :
     IF "controlPlane" \in upstream THEN 0..MaxCount ELSE {0}]

\* a status that stays degraded for one cycle after the gateway was down
computeServiceStatusSticky(gatewayRpcOk, restartUnexpectedCount24h, criticalSystemErrorActiveCount) ==
  IF ~gatewayRpcOk THEN "down"
  ELSE IF \/ restartUnexpectedCount24h > 0
          \/ criticalSystemErrorActiveCount > 0
          \/ lastProbe.status.service_status_now = "down"
  THEN "degraded"
  ELSE "running"

computeServiceStatusNow(gatewayRpcOk, restartUnexpectedCount24h, criticalSystemErrorActiveCount) ==
  IF ~gatewayRpcOk THEN "down"
  ELSE IF restartUnexpectedCount24h > 0 \/ criticalSystemErrorActiveCount > 0
  THEN "degraded"
  ELSE "running"

\* the status part of a snapshot, with the inputs it was computed from
statusOf(in) ==
  Bind(collectGatewayRuntime(in.gateway), LAMBDA gateway :
    [gateway |-> in.gateway,
     gateway_rpc_ok |-> gateway.gateway_rpc_ok,
     restart_unexpected_count_24h |-> in.restart_unexpected_count_24h,
     errors_critical_active_count |-> in.errors_critical_active_count,
     service_status_now |->
       computeServiceStatusNow(gateway.gateway_rpc_ok, in.restart_unexpected_count_24h,
                               in.errors_critical_active_count)])

\* anomaly flags that look at the two counters only
computeAnomalyFlagsCountersOnly(serviceStatusNow, restartUnexpectedCount24h, criticalSystemErrorActiveCount, skillCallsCollectionMode) ==
  [openclaw_system_anomaly |->
     restartUnexpectedCount24h > 0 \/ criticalSystemErrorActiveCount > 0,
   clawview_pipeline_anomaly |-> skillCallsCollectionMode # "fact-event-structured"]

computeAnomalyFlags(serviceStatusNow, restartUnexpectedCount24h, criticalSystemErrorActiveCount, skillCallsCollectionMode) ==
  [openclaw_system_anomaly |->
     \/ serviceStatusNow = "down"
     \/ restartUnexpectedCount24h > 0
     \/ criticalSystemErrorActiveCount > 0,
   clawview_pipeline_anomaly |-> skillCallsCollectionMode # "fact-event-structured"]

\* the anomaly part of a snapshot: collectSnapshot hands computeAnomalyFlags the
\* status it has just computed, the two counters and the mode of the skill stage
anomalyOf(status, skillMode) ==
  [skill_calls_collection_mode |-> skillMode]
  @@ computeAnomalyFlags(status.service_status_now, status.restart_unexpected_count_24h,
                         status.errors_critical_active_count, skillMode)

NoAnomaly ==
  [skill_calls_collection_mode |-> "none", openclaw_system_anomaly |-> FALSE,
   clawview_pipeline_anomaly |-> FALSE]

NoStatus ==
  [gateway |-> "none", gateway_rpc_ok |-> FALSE, restart_unexpected_count_24h |-> 0,
   errors_critical_active_count |-> 0, service_status_now |-> "none"]

\* what the API stage and the skill stage of collectSnapshot do to the files
collectStages(base, runtime, now) ==
  \E api \in {loadApiFactEvents(apiFacts, now)},
     skill \in {collectSkillUsageMetrics(base, runtime, skillCursor, skillEvents, now)},
     in \in StatusInputs :
     /\ apiFacts' = api.retainedFacts
     /\ apiEvents' = api.events
     /\ skillCursor' = skill.cursor
     /\ skillEvents' = skill.events
     /\ lastProbe' = [facts |-> factEventsOf(base \o runtime),
                      incremental |-> skill.incremental,
                      api |-> computeApiMetricsFromFactEvents(
                                api.events, now, api.sourceConnected, api),
                      rejected |-> RejectedFacts(apiFacts),
                      status |-> statusOf(in),
                      anomaly |-> anomalyOf(statusOf(in), skill.skill_calls_collection_mode),
                      exit |-> "ok"]

\* the snapshot that collectSnapshot returns
snapshotOf(now, probe) ==
  [ts |-> now, service_status_now |-> probe.status.service_status_now]

appendSnapshot(snapshot) == snapshots' = Append(snapshots, snapshot)

\* one process, nothing else running on the out-dir in between
ProbeOnce(base, runtime) ==
  /\ Len(snapshots) < MaxSnapshots
  /\ Unreachable = {}
  /\ collectStages(base, runtime, nowMs)
  /\ appendSnapshot(snapshotOf(nowMs, lastProbe'))
  /\ UNCHANGED <<upstream, syncUrl, nowMs, syncCursor, sink, lastSync>>
  /\ UNCHANGED lockVars

Probe == \E w \in LogWindows : ProbeOnce(w[1], w[2])

\* `probe.mjs --once` while an unguarded openclaw command fails: execFileSync
\* throws out of collectSnapshot before any file is touched, and main ends
\* without appendSnapshot
ProbeThrows ==
  /\ Unreachable # {}
  /\ lastProbe' = [lastProbe EXCEPT !.exit = "threw"]
  /\ UNCHANGED <<upstream, syncUrl, nowMs, apiFacts, apiEvents, skillCursor,
                 skillEvents, snapshots, syncCursor, sink, lastSync>>
  /\ UNCHANGED lockVars

(***************************************************************************)
(* probe.mjs: probe.lock and runLoop; the hook handler that spawns         *)
(* `probe.mjs --once && sync-outbound.mjs --once`                          *)
(***************************************************************************)
\* the processes, named by their PID (PIDs are not reused)
Procs == 1..MaxProcs

MaxSnapshotRows == 3

MaxWriters == 2

MaxFileOps == 1

\* process.kill(pid, 0) succeeds: the process exists
Running(p) == p \in Procs /\ pc[p] \notin {"idle", "exit", "killed"}

\* the lock file as a liveness check that only looks whether the file exists
lockAliveFileOnly == lock # <<>>

lockAlive ==
  IF lock = <<>> THEN FALSE
  ELSE IF lock[1] <= 0 THEN FALSE
  ELSE Running(lock[1])

\* runLoop with the liveness check inside its try/finally
runLoopEntryInsideTry(alive) == IF alive THEN "clearLock" ELSE "writeLock"

\* where runLoop goes after lockAlive(): it returns before the try/finally
runLoopEntry(alive) == IF alive THEN "exit" ELSE "writeLock"

(***************************************************************************)
(* p0-core-status.mjs                                                      *)
(***************************************************************************)
LOOKBACK_MS == 24 * 60 * 60 * 1000

P0_CORE_KEYS ==
  <<"service_uptime_ratio_24h", "service_status_now", "trigger_total_24h",
    "trigger_storm_task_top5_5m", "api_call_total_24h", "api_error_rate_24h",
    "api_429_ratio_24h", "endpoint_group_top5_calls_24h", "error_fingerprint_top10_24h",
    "restart_unexpected_count_24h", "data_freshness_delay_min">>

\* a field of a row is <<>> for null and <<value>> otherwise; a key that the row
\* does not have reads as undefined
isFilled(row, key) == key \in DOMAIN row /\ row[key] # Null

\* Date.parse(value ?? ''), null (NoTs) when it is not a date
tsMs(row) == IF "ts" \in DOMAIN row /\ row.ts >= 0 THEN row.ts ELSE NoTs

\* rows.push({file, row, seq: seq++, tsMs: tsMs(row.ts)}) over the files in name order
entriesOf(rows) ==
  [i \in 1..Len(rows) |-> [row |-> rows[i], seq |-> i - 1, tsMs |-> tsMs(rows[i])]]

\* a before b under (a, b) => b.tsMs - a.tsMs || b.seq - a.seq
NewerFirst(a, b) == a.tsMs > b.tsMs \/ (a.tsMs = b.tsMs /\ a.seq > b.seq)

\* the reduce that keeps the entry with the greatest (tsMs, seq)
RECURSIVE reduceLatest(_, _)
reduceLatest(acc, rest) ==
  IF rest = <<>> THEN acc
  ELSE reduceLatest(IF NewerFirst(acc, rest[1]) THEN acc ELSE rest[1], Tail(rest))

latestEntryOf(entries) ==
  Bind(SelectSeq(entries, LAMBDA e : e.tsMs # NoTs), LAMBDA rowsWithTs :
    IF Len(rowsWithTs) > 0 THEN reduceLatest(rowsWithTs[1], Tail(rowsWithTs))
    ELSE entries[Len(entries)])

InsertNewerFirst(sorted, e) ==
  Bind(Cardinality({i \in 1..Len(sorted) : ~NewerFirst(e, sorted[i])}),
       LAMBDA k : SubSeq(sorted, 1, k) \o <<e>> \o SubSeq(sorted, k + 1, Len(sorted)))

RECURSIVE SortNewerFirst(_)
SortNewerFirst(s) ==
  IF s = <<>> THEN <<>>
  ELSE Bind(SortNewerFirst(SubSeq(s, 1, Len(s) - 1)), LAMBDA pre :
         InsertNewerFirst(pre, s[Len(s)]))

\* the lookback filter with the window open at its start
lookbackRowsOpenStart(entries, latestTsMs) ==
  SortNewerFirst(SelectSeq(entries, LAMBDA e :
    e.tsMs # NoTs /\ e.tsMs > latestTsMs - LOOKBACK_MS /\ e.tsMs <= latestTsMs))

lookbackRows(entries, latestTsMs) ==
  SortNewerFirst(SelectSeq(entries, LAMBDA e :
    e.tsMs # NoTs /\ e.tsMs >= latestTsMs - LOOKBACK_MS /\ e.tsMs <= latestTsMs))

\* sourceRows.find(isFilled), as the field of the report
fieldOf(sourceRows, key) ==
  Bind(SelectSeq(sourceRows, LAMBDA e : isFilled(e.row, key)), LAMBDA found :
    IF found # <<>> THEN [key |-> key, status |-> "ready", sample |-> found[1].row[key]]
    ELSE [key |-> key, status |-> "gap", sample |-> Null])

\* Number((count / total).toFixed(4)), in ten-thousandths
toFixed4(count, total) == (2 * 10000 * count + total) \div (2 * total)

NoReport == [ok |-> FALSE]

\* the report of a run over the rows of the snapshot files, at the time now
p0CoreStatus(rows, now) ==
  Bind(entriesOf(rows), LAMBDA entries :
  Bind(latestEntryOf(entries), LAMBDA latestEntry :
  Bind(lookbackRows(entries, IF latestEntry.tsMs # NoTs THEN latestEntry.tsMs ELSE now),
       LAMBDA lookback :
  Bind([k \in 1..Len(P0_CORE_KEYS) |->
          fieldOf(IF Len(lookback) > 0 THEN lookback ELSE <<latestEntry>>, P0_CORE_KEYS[k])],
       LAMBDA fields :
  Bind(Cardinality({k \in 1..Len(fields) : fields[k].status = "ready"}), LAMBDA readyCount :
    [ok |-> TRUE,
     source_snapshot_ts |-> latestEntry.row.ts,
     p0_core_total |-> Len(P0_CORE_KEYS),
     p0_core_ready |-> readyCount,
     p0_core_coverage_ratio |-> toFixed4(readyCount, Len(P0_CORE_KEYS)),
     fields |-> fields])))))

(***************************************************************************)
(* The dashboard function (clawview-dashboard/index.mjs) and the frontend  *)
(* mapping of its response                                                 *)
(***************************************************************************)
\* the note of a Gap metric ("data not connected"), romanised
GAP_NOTE == "shu ju wei jie ru"

\* String(n)
StringOf(n) == <<"0", "1", "2", "3", "4", "5", "6", "7", "8", "9">>[n + 1]

\* {readiness, value, display, ...(note ? {note} : {})}, note being <<>> or <<text>>
metric(readiness, value, display, note) ==
  [readiness |-> readiness, value |-> value, display |-> display] @@ Optional("note", note)

metricGap == metric("Gap", NullValue, "--", <<GAP_NOTE>>)

asNumber(value, fallback) == IF value.typeof = "number" THEN value.value ELSE fallback

\* the part of the contract made of the skill, cron and API totals, from the
\* latest snapshot and the API events of the last 24 hours
buildDashboardContract(snapshot, skillComponents, events) ==
  Bind(IF skillComponents > 0 THEN skillComponents ELSE asNumber(snapshot.skills_total, 0),
       LAMBDA totalSkillsValue :
    [skill_summary |->
       [total_skills |->
          IF totalSkillsValue > 0 \/ snapshot.skills_total.typeof = "number"
             \/ skillComponents > 0
          THEN metric("Derived", Num(totalSkillsValue), StringOf(totalSkillsValue), <<>>)
          ELSE metricGap,
        calls_24h |->
          IF snapshot.skill_calls_total_24h.typeof = "number"
          THEN metric("Derived", Num(asNumber(snapshot.skill_calls_total_24h, 0)),
                      StringOf(asNumber(snapshot.skill_calls_total_24h, 0)), <<>>)
          ELSE metricGap,
        calls_tokyo_today |-> metricGap],
     cron_summary |->
       [total_tasks |->
          IF snapshot.cron_jobs_total.typeof = "number"
          THEN metric("Derived", Num(asNumber(snapshot.cron_jobs_total, 0)),
                      StringOf(asNumber(snapshot.cron_jobs_total, 0)), <<>>)
          ELSE metricGap],
     api_summary |->
       [api_call_total_24h |->
          IF snapshot.api_collection_mode = "fact-event-structured"
          THEN metric("Derived", Num(events), StringOf(events), <<>>)
          ELSE metricGap]])

readNum(v) == IF v.typeof = "number" THEN v ELSE Num(0)

toNumberOrNull(v) == IF v.typeof = "number" THEN v ELSE NullValue

normalizeReadiness(v) ==
  IF v \in {"Ready", "Derived", "Gap"} THEN v
  ELSE IF v = "ready" THEN "Ready"
  ELSE IF v = "derived" THEN "Derived"
  ELSE IF v = "gap" THEN "Gap"
  ELSE "Derived"

\* parseMetric of an input that is an object
parseMetric(input, fallback, parseValue(_)) ==
  [readiness |-> normalizeReadiness(input.readiness),
   value |-> IF "value" \in DOMAIN input THEN parseValue(input.value) ELSE fallback.value,
   display |-> IF "display" \in DOMAIN input /\ input.display # "" THEN input.display
               ELSE fallback.display]
  @@ Optional("note", IF "note" \in DOMAIN input THEN <<input.note>>
                      ELSE IF "note" \in DOMAIN fallback THEN <<fallback.note>> ELSE <<>>)

\* the same metrics as the frontend shows them
mapDashboardContract(raw) ==
  [skillSummary |->
     [totalSkills |-> parseMetric(raw.skill_summary.total_skills,
                                  metric("Ready", Num(0), "0", <<>>), readNum),
      calls24h |-> parseMetric(raw.skill_summary.calls_24h,
                               metric("Derived", Num(0), "0", <<>>), readNum),
      callsTokyoToday |-> parseMetric(raw.skill_summary.calls_tokyo_today,
                                      metric("Derived", Num(0), "0", <<>>), readNum)],
   cronSummary |->
     [totalTasks |-> parseMetric(raw.cron_summary.total_tasks,
                                 metric("Ready", Num(0), "0", <<>>), readNum)],
   apiSummary |->
     [callTotal24h |-> parseMetric(raw.api_summary.api_call_total_24h, metricGap,
                                   toNumberOrNull)]]

\* the latest snapshot row of the table, as far as the totals read it
DashboardSnapshots ==
  [skills_total : {NullValue, Num(0), Num(4)},
   skill_calls_total_24h : {NullValue, Num(0), Num(3)},
   cron_jobs_total : {NullValue, Num(2)},
   api_collection_mode : {"fact-event-structured", "fact-only-not-connected"}]

\* a GET of the dashboard function
DashboardGet ==
  /\ dashboard.contract = <<>>
  /\ \E snapshot \in DashboardSnapshots, skillComponents \in {0, 2}, events \in {0, 2} :
       dashboard' = [dashboard EXCEPT
                       !.contract = <<buildDashboardContract(snapshot, skillComponents, events)>>]
  /\ UNCHANGED <<pipelineVars, lock, pc, mode, seen, held, buf, hookState, hook, SYNC_ENABLED,
                 p0Status, disk, io>>

\* the frontend receives the response and maps it
DashboardMap ==
  /\ dashboard.contract # <<>>
  /\ dashboard.data = <<>>
  /\ dashboard' = [dashboard EXCEPT !.data = <<mapDashboardContract(dashboard.contract[1])>>]
  /\ UNCHANGED <<pipelineVars, lock, pc, mode, seen, held, buf, hookState, hook, SYNC_ENABLED,
                 p0Status, disk, io>>

(***************************************************************************)
(* The files as the file system holds them                                 *)
(***************************************************************************)
\* the pipelines that may be running at once (a hook event spawns a detached
\* pipeline, and neither `probe.mjs --once` nor sync-outbound takes a lock)
Writers == 1..MaxWriters

syncCursorPath == "sync-cursor.json"

snapshotPath == "snapshots.jsonl"

\* `${filePath}.tmp`
tmpOf(filePath) == filePath \o ".tmp"

Paths == {syncCursorPath, tmpOf(syncCursorPath), snapshotPath}

NoFile == 0

\* the text of a document: what JSON.stringify(value) + "\n" gives, as two
\* pieces that one write(2) call may or may not write together
TextOf(doc) == <<[doc |-> doc, piece |-> 1], [doc |-> doc, piece |-> 2]>>

\* the zero bytes of a file written beyond its end
Hole == [doc |-> 0, piece |-> 0]

NotWriting == [pc |-> "idle", fd |-> NoFile, pos |-> 0, left |-> <<>>, done |-> 0, flag |-> "none"]

NothingRead == [path |-> "none", exists |-> FALSE, text |-> <<>>]

\* the document a writer writes in its next operation
NextDoc(w) == io[w].done * MaxWriters + w

\* fs.openSync(path, 'w' | 'a'): the file of that name, created when there is none
\* and emptied under 'w'
openSync(d, path, flag) ==
  IF d.dir[path] = NoFile
  THEN [dir |-> [d.dir EXCEPT ![path] = Len(d.files) + 1], files |-> Append(d.files, <<>>)]
  ELSE IF flag = "w" THEN [d EXCEPT !.files[d.dir[path]] = <<>>]
  ELSE d

\* write(2) of the bytes at the position, zero-filling a gap
WriteAt(text, pos, bytes) ==
  [i \in 1..(IF Len(text) > pos + Len(bytes) THEN Len(text) ELSE pos + Len(bytes)) |->
     IF i > pos /\ i <= pos + Len(bytes) THEN bytes[i - pos]
     ELSE IF i <= Len(text) THEN text[i]
     ELSE Hole]

\* writeJsonAtomic, its writeFileSync(tmp, ...): open of the temporary path
writeJsonAtomic(w) ==
  /\ io[w].pc = "idle"
  /\ io[w].done < MaxFileOps
  /\ \E d \in {openSync(disk, tmpOf(syncCursorPath), "w")} :
       /\ disk' = d
       /\ io' = [io EXCEPT ![w] = [pc |-> "write", fd |-> d.dir[tmpOf(syncCursorPath)],
                                   pos |-> 0, left |-> TextOf(NextDoc(w)),
                                   done |-> io[w].done, flag |-> "w"]]
  /\ UNCHANGED <<pipelineVars, lock, pc, mode, seen, held, buf, hookState, hook, SYNC_ENABLED, dashboard, p0Status>>

\* appendSnapshot, its appendFileSync(snapshotPath, ...): open of the log itself
appendFileSync(w) ==
  /\ io[w].pc = "idle"
  /\ io[w].done < MaxFileOps
  /\ \E d \in {openSync(disk, snapshotPath, "a")} :
       /\ disk' = d
       /\ io' = [io EXCEPT ![w] = [pc |-> "write", fd |-> d.dir[snapshotPath],
                                   pos |-> 0, left |-> TextOf(NextDoc(w)),
                                   done |-> io[w].done, flag |-> "a"]]
  /\ UNCHANGED <<pipelineVars, lock, pc, mode, seen, held, buf, hookState, hook, SYNC_ENABLED, dashboard, p0Status>>

\* one write(2) of writeFileSync or appendFileSync: some or all of the bytes left,
\* at the position of the descriptor, or at the end of the file under 'a'; the
\* file is closed after the last one
writeSync(w) ==
  /\ io[w].pc = "write"
  /\ \E k \in 1..Len(io[w].left) :
       \E at \in {IF io[w].flag = "a" THEN Len(disk.files[io[w].fd]) ELSE io[w].pos} :
         /\ disk' = [disk EXCEPT !.files[io[w].fd] = WriteAt(@, at, SubSeq(io[w].left, 1, k))]
         /\ io' = [io EXCEPT ![w] =
                     IF k < Len(io[w].left)
                     THEN [@ EXCEPT !.pos = at + k, !.left = SubSeq(@, k + 1, Len(@))]
                     ELSE IF io[w].flag = "w"
                     THEN [@ EXCEPT !.pc = "rename", !.pos = at + k, !.left = <<>>]
                     ELSE [NotWriting EXCEPT !.done = io[w].done + 1]]
  /\ UNCHANGED <<pipelineVars, lock, pc, mode, seen, held, buf, hookState, hook, SYNC_ENABLED, dashboard, p0Status>>

\* writeJsonAtomic, its renameSync(tmp, filePath), which throws when another
\* writer has renamed the temporary file away
renameSync(w) ==
  /\ io[w].pc = "rename"
  /\ disk' = IF disk.dir[tmpOf(syncCursorPath)] = NoFile THEN disk
             ELSE [disk EXCEPT !.dir[syncCursorPath] = disk.dir[tmpOf(syncCursorPath)],
                               !.dir[tmpOf(syncCursorPath)] = NoFile]
  /\ io' = [io EXCEPT ![w] = [NotWriting EXCEPT !.done = io[w].done + 1]]
  /\ UNCHANGED <<pipelineVars, lock, pc, mode, seen, held, buf, hookState, hook, SYNC_ENABLED, dashboard, p0Status>>

\* fs.readFileSync(path) of readJson and readJsonl in another process
readFileSync(path) ==
  /\ io' = [io EXCEPT ![0] =
              IF disk.dir[path] = NoFile THEN [NothingRead EXCEPT !.path = path]
              ELSE [path |-> path, exists |-> TRUE, text |-> disk.files[disk.dir[path]]]]
  /\ io'[0] # io[0]
  /\ UNCHANGED <<pipelineVars, lock, pc, mode, seen, held, buf, hookState, hook, SYNC_ENABLED, dashboard, p0Status, disk>>

InitProcs ==
  /\ lock = <<>>
  /\ pc = [p \in Procs |-> "idle"]
  /\ mode = [p \in Procs |-> "none"]
  /\ seen = [p \in Procs |-> <<>>]
  /\ held = [p \in Procs |-> [ts |-> NoTs]]
  /\ buf = [p \in Procs |-> <<>>]
  /\ hookState = [lastTriggeredMs |-> 0]
  /\ hook = [pc |-> "idle", nowMs |-> NoTs, outcome |-> "none", seenMs |-> NoTs,
             spawned |-> 0]
  /\ disk = [dir |-> [path \in Paths |-> NoFile], files |-> <<>>]
  /\ p0Status = NoReport
  /\ dashboard = [contract |-> <<>>, data |-> <<>>]
  /\ io = [w \in Writers |-> NotWriting] @@ [reader \in {0} |-> NothingRead]

filesVars == <<apiFacts, apiEvents, skillCursor, skillEvents, snapshots, syncCursor,
               sink, lastSync, lastProbe>>

envVars == <<upstream, syncUrl, nowMs>>

\* main without --once: runLoop
StartRunLoop(p) ==
  /\ pc[p] = "idle"
  /\ pc' = [pc EXCEPT ![p] = "lockAlive"]
  /\ mode' = [mode EXCEPT ![p] = "loop"]
  /\ UNCHANGED <<lock, seen, held, buf, hookState, hook, SYNC_ENABLED, dashboard, p0Status, disk, io, filesVars, envVars>>

LockCheck(p) ==
  /\ pc[p] = "lockAlive"
  /\ seen' = [seen EXCEPT ![p] = lock]
  /\ pc' = [pc EXCEPT ![p] = runLoopEntry(lockAlive)]
  /\ UNCHANGED <<lock, mode, held, buf, hookState, hook, SYNC_ENABLED, dashboard, p0Status, disk, io, filesVars, envVars>>

WriteLock(p) ==
  /\ pc[p] = "writeLock"
  /\ lock' = <<p>>
  /\ pc' = [pc EXCEPT ![p] = "collectSnapshot"]
  /\ UNCHANGED <<mode, seen, held, buf, hookState, hook, SYNC_ENABLED, dashboard, p0Status, disk, io, filesVars, envVars>>

\* canSync of the handler: the child environment is the one of the handler, with
\* the URL of sync-config.json when the environment has none
canSync == SYNC_ENABLED /\ syncUrl

\* a pipeline whose two commands are joined by `;`
pipelineCmdSequence(probeOk, sync) == IF sync THEN "sync" ELSE "exit"

\* pipelineCmd: `probe.mjs --once && sync-outbound.mjs --once` when canSync, the
\* probe alone otherwise; what the shell does when the probe command has ended
pipelineCmd(probeOk, sync) == IF sync /\ probeOk THEN "sync" ELSE "exit"

\* snapshots being taken or about to be appended
Pending ==
  Cardinality({q \in Procs : pc[q] \in {"stages", "retentionRead", "retentionWrite",
                                        "appendSnapshot"}})

\* collectSnapshot starts: const nowMs = Date.now()
BeginCollect(p) ==
  /\ pc[p] = "collectSnapshot"
  /\ Len(snapshots) + Pending < MaxSnapshots
  /\ held' = [held EXCEPT ![p] = [ts |-> nowMs]]
  /\ pc' = [pc EXCEPT ![p] = "stages"]
  /\ UNCHANGED <<lock, mode, seen, buf, hookState, hook, SYNC_ENABLED, dashboard, p0Status, disk, io, filesVars, envVars>>

\* collectSnapshot: the API stage and the skill stage
CollectStages(p) ==
  /\ pc[p] = "stages"
  /\ \E w \in LogWindows : collectStages(w[1], w[2], held[p].ts)
  /\ held' = [held EXCEPT ![p] = snapshotOf(held[p].ts, lastProbe')]
  /\ pc' = [pc EXCEPT ![p] = "appendSnapshot"]
  /\ UNCHANGED <<lock, mode, seen, buf, hookState, hook, SYNC_ENABLED, dashboard, p0Status, disk, io, snapshots, syncCursor, sink,
                 lastSync, envVars>>

\* a runLoop whose sampling loop is not inside a try/finally
CollectThrowsNoFinally(p) ==
  /\ pc[p] = "stages"
  /\ pc' = [pc EXCEPT ![p] = IF mode[p] = "loop" THEN "exit"
                             ELSE pipelineCmd(FALSE, canSync)]
  /\ UNCHANGED <<lock, mode, seen, held, buf, hookState, hook, SYNC_ENABLED, dashboard, p0Status, disk, io, filesVars, envVars>>

\* collectSnapshot throws (an openclaw command fails): runLoop's finally clears
\* the lock, `probe.mjs --once` ends and `&&` keeps the sync from running
CollectThrows(p) ==
  /\ pc[p] = "stages"
  /\ pc' = [pc EXCEPT ![p] = IF mode[p] = "loop" THEN "clearLock"
                             ELSE pipelineCmd(FALSE, canSync)]
  /\ UNCHANGED <<lock, mode, seen, held, buf, hookState, hook, SYNC_ENABLED, dashboard, p0Status, disk, io, filesVars, envVars>>

AppendSnapshot(p) ==
  /\ pc[p] = "appendSnapshot"
  /\ appendSnapshot(held[p])
  /\ pc' = [pc EXCEPT ![p] = IF mode[p] = "loop" THEN "sleep"
                             ELSE pipelineCmd(TRUE, canSync)]
  /\ UNCHANGED <<lock, mode, seen, held, buf, hookState, hook, SYNC_ENABLED, dashboard, p0Status, disk, io, apiFacts, apiEvents, skillCursor,
                 skillEvents, syncCursor, sink, lastSync, lastProbe, envVars>>

\* await sleep(intervalMs), then the while condition
SleepDone(p) ==
  /\ pc[p] = "sleep"
  /\ \E next \in {"collectSnapshot", "clearLock"} : pc' = [pc EXCEPT ![p] = next]
  /\ UNCHANGED <<lock, mode, seen, held, buf, hookState, hook, SYNC_ENABLED, dashboard, p0Status, disk, io, filesVars, envVars>>

\* finally { clearLock() }: removes probe.lock whoever wrote it
ClearLock(p) ==
  /\ pc[p] = "clearLock"
  /\ lock' = <<>>
  /\ pc' = [pc EXCEPT ![p] = "exit"]
  /\ UNCHANGED <<mode, seen, held, buf, hookState, hook, SYNC_ENABLED, dashboard, p0Status, disk, io, filesVars, envVars>>

\* the second command of the spawned pipeline
SyncAfterProbe(p) ==
  /\ pc[p] = "sync"
  /\ \E apiResp \in Responses, snapResp \in Responses : runOnceFiles(apiResp, snapResp)
  /\ pc' = [pc EXCEPT ![p] = "exit"]
  /\ UNCHANGED <<lock, mode, seen, held, buf, hookState, hook, SYNC_ENABLED, dashboard, p0Status, disk, io, apiFacts, apiEvents, skillCursor,
                 skillEvents, snapshots, lastProbe, envVars>>

\* the process is killed: no finally block runs.  Killed inside writeFileSync of
\* writeLock, the file may be left truncated (its content reads as 0).
Kill(p) ==
  /\ Running(p)
  /\ pc' = [pc EXCEPT ![p] = "killed"]
  /\ lock' \in (IF pc[p] = "writeLock" THEN {lock, <<0>>} ELSE {lock})
  /\ UNCHANGED <<mode, seen, held, buf, hookState, hook, SYNC_ENABLED, dashboard, p0Status, disk, io, filesVars, envVars>>

\* a debounce test with a window twice as long
shouldSkipByDebounceTwice(now, state) ==
  IF state.lastTriggeredMs <= 0 THEN FALSE
  ELSE now - state.lastTriggeredMs < 2 * DEBOUNCE_MS

shouldSkipByDebounce(now, state) ==
  IF state.lastTriggeredMs <= 0 THEN FALSE
  ELSE now - state.lastTriggeredMs < DEBOUNCE_MS

\* handler, for a supported event: debounced, or the state is written and the
\* pipeline is spawned detached
HookEvent ==
  /\ ~shouldSkipByDebounce(nowMs, hookState)
  /\ hookState' = [lastTriggeredMs |-> nowMs]
  /\ \E p \in Procs :
       /\ pc[p] = "idle"
       /\ pc' = [pc EXCEPT ![p] = "collectSnapshot"]
       /\ mode' = [mode EXCEPT ![p] = "once"]
  /\ UNCHANGED <<lock, seen, held, buf, hook, SYNC_ENABLED, dashboard, p0Status, disk, io, filesVars, envVars>>

\* a handler that records every event it sees in hook-trigger-state.json
handlerTouchOnSkip(now, prev) ==
  IF shouldSkipByDebounce(now, prev)
  THEN [state |-> [lastTriggeredMs |-> now], outcome |-> "skipped", next |-> "idle"]
  ELSE [state |-> [lastTriggeredMs |-> now], outcome |-> "accepted", next |-> "spawn"]

\* handler up to its spawn, for a supported event read at now with the state
\* prev: what hook-trigger-state.json holds afterwards, and whether it goes on
handler(now, prev) ==
  IF shouldSkipByDebounce(now, prev)
  THEN [state |-> prev, outcome |-> "skipped", next |-> "idle"]
  ELSE [state |-> [lastTriggeredMs |-> now], outcome |-> "accepted", next |-> "spawn"]

\* handler: nowMs = Date.now(), readState, the debounce test and writeState
HandlerBegin ==
  /\ hook.pc = "idle"
  /\ \E p \in Procs : pc[p] = "idle"
  /\ \E h \in {handler(nowMs, hookState)} :
       /\ hookState' = h.state
       /\ hook' = [pc |-> h.next, nowMs |-> nowMs, outcome |-> h.outcome,
                   seenMs |-> hook.nowMs, spawned |-> 0]
  /\ UNCHANGED <<lock, pc, mode, seen, held, buf, SYNC_ENABLED, dashboard, p0Status, disk, io, filesVars, envVars>>

\* handler: spawn("sh", ["-lc", pipelineCmd], {detached: true}) and child.unref()
HandlerSpawn ==
  /\ hook.pc = "spawn"
  /\ \E p \in Procs :
       /\ pc[p] = "idle"
       /\ pc' = [pc EXCEPT ![p] = "collectSnapshot"]
       /\ mode' = [mode EXCEPT ![p] = "once"]
  /\ hook' = [hook EXCEPT !.pc = "idle", !.spawned = 1]
  /\ UNCHANGED <<lock, seen, held, buf, hookState, SYNC_ENABLED, dashboard, p0Status, disk, io, filesVars, envVars>>

\* Handlers that run side by side, one per process that loads the hook.  Of the
\* handler p, held[p].ts is its nowMs, seen[p] the state it read, and buf[p] the
\* times of the triggers it has accepted, i.e. of its spawns.
\* handler: nowMs = Date.now(), prev = readState() and the debounce test
HandlerReadState(p) ==
  /\ pc[p] = "idle"
  /\ held' = [held EXCEPT ![p] = [ts |-> nowMs]]
  /\ seen' = [seen EXCEPT ![p] = <<hookState>>]
  /\ pc' = [pc EXCEPT ![p] = IF handler(nowMs, hookState).outcome = "skipped"
                             THEN "idle" ELSE "writeState"]
  /\ UNCHANGED <<lock, mode, buf, hookState, hook, SYNC_ENABLED, dashboard, p0Status, disk, io, filesVars, envVars>>

\* handler: writeState({lastTriggeredMs: nowMs, lastEvent: key})
HandlerWriteState(p) ==
  /\ pc[p] = "writeState"
  /\ hookState' = handler(held[p].ts, seen[p][1]).state
  /\ pc' = [pc EXCEPT ![p] = "spawn"]
  /\ UNCHANGED <<lock, mode, seen, held, buf, hook, SYNC_ENABLED, dashboard, p0Status, disk, io, filesVars, envVars>>

\* handler: spawn("sh", ["-lc", pipelineCmd], {detached: true}), and its return
HandlerSpawnChild(p) ==
  /\ pc[p] = "spawn"
  /\ buf' = [buf EXCEPT ![p] = Append(buf[p], held[p].ts)]
  /\ pc' = [pc EXCEPT ![p] = "idle"]
  /\ UNCHANGED <<lock, mode, seen, held, hookState, hook, SYNC_ENABLED, dashboard, p0Status, disk, io, filesVars, envVars>>

\* time passes between two hook events
HookTick ==
  /\ nowMs < StepMs + MaxHookSteps * HookStepMs
  /\ nowMs' = nowMs + HookStepMs
  /\ UNCHANGED <<upstream, syncUrl, filesVars, lockVars>>

\* collectSnapshot up to the cursor write of collectSkillUsageMetrics: the API
\* stage, the cursor filter, appendJsonl(skillEventsPath, incremental) and
\* writeJsonAtomic(skillCursorPath, ...)
SkillAppend(p) ==
  /\ pc[p] = "stages"
  /\ \E w \in LogWindows :
       \E api \in {loadApiFactEvents(apiFacts, held[p].ts)},
          adv \in {skillAdvance(factEventsOf(w[1] \o w[2]), skillCursor)},
          in \in StatusInputs :
          /\ apiFacts' = api.retainedFacts
          /\ apiEvents' = api.events
          /\ skillCursor' = adv.cursor
          /\ skillEvents' = skillEvents \o adv.incremental
          /\ lastProbe' = [facts |-> factEventsOf(w[1] \o w[2]),
                           incremental |-> adv.incremental,
                           api |-> computeApiMetricsFromFactEvents(
                                     api.events, held[p].ts, api.sourceConnected, api),
                           rejected |-> RejectedFacts(apiFacts),
                           status |-> statusOf(in),
                           anomaly |-> NoAnomaly,
                           exit |-> "ok"]
  /\ held' = [held EXCEPT ![p] = snapshotOf(held[p].ts, lastProbe')]
  /\ pc' = [pc EXCEPT ![p] = "retentionRead"]
  /\ UNCHANGED <<lock, mode, seen, buf, hookState, hook, SYNC_ENABLED, dashboard, p0Status, disk, io, snapshots, syncCursor, sink,
                 lastSync, envVars>>

\* `probe.mjs --once` started while no other process works on the out-dir
StartOnce(p) ==
  /\ pc[p] = "idle"
  /\ \A q \in Procs : ~Running(q)
  /\ pc' = [pc EXCEPT ![p] = "collectSnapshot"]
  /\ mode' = [mode EXCEPT ![p] = "once"]
  /\ UNCHANGED <<lock, seen, held, buf, hookState, hook, SYNC_ENABLED, dashboard, p0Status, disk, io, filesVars, envVars>>

\* collectSnapshot up to appendJsonl(skillEventsPath, incremental): the API
\* stage, the cursor filter and the append; buf[p] holds the cursor to write
SkillAppendFacts(p) ==
  /\ pc[p] = "stages"
  /\ \E w \in LogWindows :
       \E api \in {loadApiFactEvents(apiFacts, held[p].ts)},
          adv \in {skillAdvance(factEventsOf(w[1] \o w[2]), skillCursor)},
          in \in StatusInputs :
          /\ apiFacts' = api.retainedFacts
          /\ apiEvents' = api.events
          /\ skillEvents' = skillEvents \o adv.incremental
          /\ buf' = [buf EXCEPT ![p] = <<adv.cursor>>]
          /\ lastProbe' = [facts |-> factEventsOf(w[1] \o w[2]),
                           incremental |-> adv.incremental,
                           api |-> computeApiMetricsFromFactEvents(
                                     api.events, held[p].ts, api.sourceConnected, api),
                           rejected |-> RejectedFacts(apiFacts),
                           status |-> statusOf(in),
                           anomaly |-> NoAnomaly,
                           exit |-> "ok"]
  /\ held' = [held EXCEPT ![p] = snapshotOf(held[p].ts, lastProbe')]
  /\ pc' = [pc EXCEPT ![p] = "cursorWrite"]
  /\ UNCHANGED <<lock, mode, seen, hookState, hook, SYNC_ENABLED, dashboard, p0Status, disk, io, skillCursor, snapshots,
                 syncCursor, sink, lastSync, envVars>>

\* writeJsonAtomic(skillCursorPath, {last_ts_ms: maxTs, last_keys: ...})
SkillCursorWrite(p) ==
  /\ pc[p] = "cursorWrite"
  /\ skillCursor' = buf[p][1]
  /\ buf' = [buf EXCEPT ![p] = <<>>]
  /\ pc' = [pc EXCEPT ![p] = "retentionRead"]
  /\ UNCHANGED <<lock, mode, seen, held, hookState, hook, SYNC_ENABLED, dashboard, p0Status, disk, io, apiFacts, apiEvents,
                 skillEvents, snapshots, syncCursor, sink, lastSync, lastProbe, envVars>>

\* allEvents = readJsonl(skillEventsPath).filter(ts_ms >= retainedFrom); the mode
\* and the anomaly flags of the snapshot follow from what was read
RetentionRead(p) ==
  /\ pc[p] = "retentionRead"
  /\ \E allEvents \in {skillCompact(skillEvents, <<>>, held[p].ts)} :
       /\ buf' = [buf EXCEPT ![p] = allEvents]
       /\ lastProbe' = [lastProbe EXCEPT
                          !.anomaly = anomalyOf(lastProbe.status,
                                        collectionModeOf(lastProbe.facts, allEvents))]
  /\ pc' = [pc EXCEPT ![p] = "retentionWrite"]
  /\ UNCHANGED <<lock, mode, seen, held, hookState, hook, SYNC_ENABLED, dashboard, p0Status, disk, io, apiFacts, apiEvents,
                 skillCursor, skillEvents, snapshots, syncCursor, sink, lastSync, envVars>>

\* the rewrite of skill-events.jsonl from allEvents (tmp file and rename, or the
\* truncation when allEvents is empty)
RetentionWrite(p) ==
  /\ pc[p] = "retentionWrite"
  /\ skillEvents' = buf[p]
  /\ pc' = [pc EXCEPT ![p] = "appendSnapshot"]
  /\ UNCHANGED <<lock, mode, seen, held, buf, hookState, hook, SYNC_ENABLED, dashboard, p0Status, disk, io, apiFacts, apiEvents,
                 skillCursor, snapshots, syncCursor, sink, lastSync, lastProbe, envVars>>

(***************************************************************************)
(* The environment: the clock, and the external writer of api-facts.jsonl  *)
(***************************************************************************)
Tick ==
  /\ nowMs < MaxStep * StepMs
  /\ nowMs' = nowMs + StepMs
  /\ UNCHANGED <<upstream, syncUrl, apiFacts, apiEvents, skillCursor, skillEvents,
                 snapshots, syncCursor, sink, lastSync, lastProbe>>
  /\ UNCHANGED lockVars

\* the facts of a writer that keeps to the fact contract
CleanFacts ==
  {[ts |-> IsoString(ts), provider |-> "telegram", path_template |-> Plain,
    endpoint_group |-> "message_send", status_code |-> Num(200), is_429 |-> FALSE,
    is_failure |-> FALSE, dedupe_key |-> k] :
     ts \in Times, k \in Keys}

\* a clean fact with some of its fields replaced or added
With(fact, changes) ==
  [key \in (DOMAIN fact) \cup (DOMAIN changes) |->
     IF key \in DOMAIN changes THEN changes[key] ELSE fact[key]]

\* what a writer that does not filter may write at its first timestamp: a
\* successful call, a failed one, records with a non-whitelisted field, with
\* sensitive values, without a dedupe key
UnfilteredFacts ==
  {With(f, c) :
     f \in {g \in CleanFacts : g.dedupe_key = 1 /\ g.ts = IsoString(0)},
     c \in {[is_failure |-> FALSE],
            [is_failure |-> TRUE],
            [headers |-> Plain],
            [headers |-> TokenKv],
            [path_template |-> TokenKv],
            [path_template |-> TokenKvQuoted],
            [dedupe_key |-> SecretKey],
            [dedupe_key |-> QuotedSecretKey],
            [dedupe_key |-> NoKey]}}

\* what a writer may write of the outcome of a call at its first timestamp: a
\* status code that is absent, a number inside or outside [100, 599], or a
\* string, and the two flags, each absent, true or false
OutcomeFacts ==
  {With(Without(f, {"status_code", "is_429", "is_failure"}),
        Optional("status_code", status) @@ Optional("is_429", is429)
        @@ Optional("is_failure", isFailure)) :
     f \in {g \in CleanFacts : g.ts = IsoString(0)},
     status \in {<<>>, <<Num(200)>>, <<Num(429)>>, <<Num(99)>>, <<Str(200)>>},
     is429 \in {<<>>, <<TRUE>>, <<FALSE>>},
     isFailure \in {<<>>, <<TRUE>>, <<FALSE>>}}

\* what a writer that repeats itself may write: the same call reported at its
\* first or second timestamp, as a success or as a failure
DuplicateFacts ==
  {With(f, [is_failure |-> failed]) :
     f \in {g \in CleanFacts : g.ts.value <= StepMs}, failed \in BOOLEAN}

\* the ways a writer may give the time of a call: an ISO-8601 string, a number
\* of milliseconds, whole or not, a number of seconds, the same as strings of
\* digits, and a string that is no date
TsValues ==
  {IsoString(StepMs),
   TsValue("number", "ms", StepMs, 0), TsValue("number", "ms", StepMs, 1),
   TsValue("number", "s", StepMs \div 1000, 0),
   TsValue("string", "ms", StepMs, 0), TsValue("string", "ms", StepMs, 1),
   TsValue("string", "s", StepMs \div 1000, 0),
   TsValue("string", "none", 0, 0)}

\* one call reported with each of these times, by a provider named or legacy,
\* with or without its status code and its failure flag
TimestampFacts ==
  {With(Without(f, {"status_code", "is_failure"}),
        [ts |-> ts, provider |-> provider] @@ Optional("status_code", status)
        @@ Optional("is_failure", isFailure)) :
     f \in {g \in CleanFacts : g.dedupe_key = 1 /\ g.ts = IsoString(0)},
     ts \in TsValues,
     provider \in {"telegram", "other", "others"},
     status \in {<<>>, <<Num(200)>>, <<Num(99)>>},
     isFailure \in {<<>>, <<TRUE>>, <<FALSE>>}}

RawFacts ==
  (IF "apiFacts" \in upstream THEN CleanFacts ELSE {})
  \cup (IF "timestamps" \in upstream THEN TimestampFacts ELSE {})
  \cup (IF "duplicates" \in upstream THEN DuplicateFacts ELSE {})
  \cup (IF "unfiltered" \in upstream THEN UnfilteredFacts ELSE {})
  \cup (IF "outcomes" \in upstream THEN OutcomeFacts ELSE {})

WriteApiFact ==
  /\ Len(apiFacts) < MaxFacts
  /\ \E raw \in RawFacts : apiFacts' = Append(apiFacts, raw)
  /\ UNCHANGED <<upstream, syncUrl, nowMs, apiEvents, skillCursor, skillEvents,
                 snapshots, syncCursor, sink, lastSync, lastProbe>>
  /\ UNCHANGED lockVars

\* the times of the events of a list aggregated at StepMs: before the trailing
\* 24 h, at their start, at their end, and later the same day
EventTimes == {0, StepMs - 24 * HourMs, StepMs, StepMs + HookStepMs}

\* the events computeApiMetricsFromFactEvents may be given, as far as it reads
\* them
MetricEvents ==
  {[ts_ms |-> ts, provider |-> group[1], endpoint_group |-> group[2],
    is_429 |-> flags[2], is_failure |-> flags[1]] :
     ts \in EventTimes,
     group \in {<<"lark", "message_send">>, <<"lark", "unknown">>,
                <<"unknown", "message_send">>},
     flags \in {<<FALSE, FALSE>>, <<TRUE, FALSE>>, <<TRUE, TRUE>>}}

\* the groups of the successful calls, in the order in which a list brings them up
GroupNames ==
  <<(<<"lark", "message_send">>), (<<"unknown", "unknown">>), (<<"telegram", "message_send">>),
    (<<"lark", "auth">>), (<<"telegram", "media">>), (<<"lark", "webhooks">>),
    (<<"telegram", "health_metrics">>)>>

\* a successful call of the k-th group
GroupEvent(k, ts) ==
  [ts_ms |-> ts, provider |-> GroupNames[k][1], endpoint_group |-> GroupNames[k][2],
   is_429 |-> FALSE, is_failure |-> FALSE]

\* the events that may come next in a list of successful calls: of a group of the
\* list or of the next group, at most one of them later than now
NextGroupEvents(events) ==
  Bind(Cardinality({groupKey(events[i]) : i \in 1..Len(events)}), LAMBDA groups :
    {GroupEvent(k, ts) :
       k \in 1..(IF groups < Len(GroupNames) THEN groups + 1 ELSE groups),
       ts \in IF \E i \in 1..Len(events) : events[i].ts_ms > StepMs
              THEN {StepMs} ELSE {StepMs, StepMs + HookStepMs}})

\* the caller of computeApiMetricsFromFactEvents puts one more event on the list
AddEvent ==
  /\ lastProbe.exit = "none"
  /\ \/ /\ "metricEvents" \in upstream
        /\ Len(apiEvents) < MaxMetricEvents
        /\ \E ev \in MetricEvents : apiEvents' = Append(apiEvents, ev)
     \/ /\ "groupEvents" \in upstream
        /\ Len(apiEvents) < MaxGroupEvents
        /\ \E ev \in NextGroupEvents(apiEvents) : apiEvents' = Append(apiEvents, ev)
  /\ UNCHANGED <<upstream, syncUrl, nowMs, apiFacts, skillCursor, skillEvents,
                 snapshots, syncCursor, sink, lastSync, lastProbe>>
  /\ UNCHANGED lockVars

\* computeApiMetricsFromFactEvents(events, nowMs, sourceConnected)
Aggregate ==
  /\ lastProbe.exit = "none"
  /\ \E sourceConnected \in BOOLEAN :
       lastProbe' = [lastProbe EXCEPT
                       !.api = computeApiMetricsFromFactEvents(
                                 apiEvents, nowMs, sourceConnected,
                                 [validFactCount |-> 0, sensitiveDropped |-> 0,
                                  invalidDropped |-> 0]),
                       !.exit = "ok"]
  /\ UNCHANGED <<upstream, syncUrl, nowMs, apiFacts, apiEvents, skillCursor, skillEvents,
                 snapshots, syncCursor, sink, lastSync>>
  /\ UNCHANGED lockVars

InitFiles ==
  /\ InitProcs
  /\ apiFacts = <<>>
  /\ apiEvents = <<>>
  /\ skillCursor = FallbackSkillCursor
  /\ skillEvents = <<>>
  /\ snapshots = <<>>
  /\ syncCursor = FallbackSyncCursor
  /\ sink = {}
  /\ lastSync = [apiResp |-> "none", snapResp |-> "none", batch |-> <<>>]
  /\ lastProbe = [facts |-> <<>>, incremental |-> <<>>, api |-> NoApiMetrics,
                  rejected |-> <<>>, status |-> NoStatus, anomaly |-> NoAnomaly,
                  exit |-> "none"]

(***************************************************************************)
(* Specifications                                                          *)
(***************************************************************************)
InitSync == InitFiles /\ nowMs = 0 /\ upstream = {"apiFacts"} /\ syncUrl \in BOOLEAN /\ SYNC_ENABLED = TRUE

NextSync == Tick \/ WriteApiFact \/ Probe \/ SyncOnce

SpecSync == InitSync /\ [][NextSync]_vars

InitSkill == InitFiles /\ nowMs = 0 /\ upstream = {"logs"} /\ syncUrl = FALSE /\ SYNC_ENABLED = TRUE

NextSkill == Tick \/ Probe

SpecSkill == InitSkill /\ [][NextSkill]_vars

InitSyncFair == InitFiles /\ nowMs = 0 /\ upstream = {"apiFacts"} /\ syncUrl = TRUE /\ SYNC_ENABLED = TRUE

\* runOnce keeps being invoked and the sink accepts
SpecSyncFair ==
  InitSyncFair /\ [][NextSync]_vars /\ WF_vars(RunOnce("2xx", "2xx"))

\* probe runs over a log source that supplies a burst of lines in one millisecond:
\* the files are as a run over the first KeyCap - 1 lines of the burst leaves
\* them (the snapshot history has been pruned since)
InitCap ==
  /\ InitProcs
  /\ nowMs = 0 /\ upstream = {"burst"} /\ syncUrl = FALSE /\ SYNC_ENABLED = TRUE
  /\ apiFacts = <<>> /\ apiEvents = <<>>
  /\ syncCursor = FallbackSyncCursor /\ sink = {}
  /\ lastSync = [apiResp |-> "none", snapResp |-> "none", batch |-> <<>>]
  /\ \E seenFacts \in {[i \in 1..(KeyCap - 1) |-> [ts_ms |-> 0, dedupe_key |-> i]]} :
       /\ skillCursor = [last_ts_ms |-> 0, last_keys |-> [i \in 1..(KeyCap - 1) |-> i]]
       /\ skillEvents = seenFacts
       /\ lastProbe = [facts |-> seenFacts, incremental |-> seenFacts,
                       api |-> NoApiMetrics, rejected |-> <<>>,
                       status |-> NoStatus, anomaly |-> NoAnomaly, exit |-> "none"]
  /\ snapshots = <<>>

SpecCap == InitCap /\ [][NextSkill]_vars

\* probe runs and sync runs over either of the two fact sources
InitCursors ==
  /\ InitFiles /\ nowMs = 0
  /\ \/ upstream = {"logs"} /\ syncUrl = FALSE /\ SYNC_ENABLED = TRUE
     \/ upstream = {"apiFacts"} /\ syncUrl = TRUE /\ SYNC_ENABLED = TRUE

NextCursors == Tick \/ WriteApiFact \/ Probe \/ SyncOnce

SpecCursors == InitCursors /\ [][NextCursors]_vars

\* probe runs and sync runs over either fact source or over the burst
InitAdvance == InitCap \/ InitCursors

SpecAdvance == InitAdvance /\ [][NextCursors]_vars

\* runLoop invocations and hook events on one out-dir whose upstream sources are
\* silent
InitLock == InitFiles /\ nowMs = StepMs /\ upstream = {} /\ syncUrl \in BOOLEAN /\ SYNC_ENABLED = TRUE

ProcStep(p) ==
  \/ StartRunLoop(p) \/ LockCheck(p) \/ WriteLock(p) \/ BeginCollect(p)
  \/ CollectStages(p) \/ CollectThrows(p) \/ AppendSnapshot(p) \/ SleepDone(p)
  \/ ClearLock(p) \/ SyncAfterProbe(p) \/ Kill(p)

NextLock == Tick \/ HookEvent \/ \E p \in Procs : ProcStep(p)

SpecLock == InitLock /\ [][NextLock]_vars

\* probe runs and sync runs over a fact file written by a writer that does not
\* filter
InitApi ==
  InitFiles /\ nowMs = 0 /\ upstream = {"unfiltered"} /\ syncUrl = TRUE /\ SYNC_ENABLED = TRUE

SpecApi == InitApi /\ [][NextSync]_vars

\* the CLI, the log source or the gateway becomes unreachable, or reachable again
Outage ==
  /\ "controlPlane" \in upstream
  /\ \E down \in SUBSET {"cliDown", "logsDown", "gatewayDown"} :
       /\ upstream' = {"controlPlane"} \cup down
       /\ upstream' # upstream
  /\ UNCHANGED <<syncUrl, nowMs, apiFacts, apiEvents, skillCursor, skillEvents,
                 snapshots, syncCursor, sink, lastSync, lastProbe>>
  /\ UNCHANGED lockVars

\* probe runs while the state of the monitored system and the reachability of
\* the openclaw commands change
InitStatus == InitFiles /\ nowMs = 0 /\ upstream = {"controlPlane"} /\ syncUrl = FALSE /\ SYNC_ENABLED = TRUE

NextStatus == Tick \/ Outage \/ Probe \/ ProbeThrows

SpecStatus == InitStatus /\ [][NextStatus]_vars

\* probe runs over a log source that has one skill read or none, while the
\* state of the monitored system changes
InitAnomaly ==
  /\ InitFiles /\ nowMs = 0 /\ syncUrl = FALSE /\ SYNC_ENABLED = TRUE
  /\ upstream = {"controlPlane", "skillLog"}

NextAnomaly == Tick \/ Probe

SpecAnomaly == InitAnomaly /\ [][NextAnomaly]_vars

\* hook-spawned `probe.mjs --once` pipelines over a live log source, each step of
\* a process being one file operation
InitRace == InitFiles /\ nowMs = StepMs /\ upstream = {"logs"} /\ syncUrl = FALSE /\ SYNC_ENABLED = TRUE

RaceStep(p) ==
  \/ BeginCollect(p) \/ SkillAppend(p) \/ RetentionRead(p) \/ RetentionWrite(p)
  \/ AppendSnapshot(p)

NextRace == Tick \/ HookEvent \/ \E p \in Procs : RaceStep(p)

SpecRace == InitRace /\ [][NextRace]_vars

\* hook events, a time apart that is shorter than the debounce window, and the
\* pipelines spawned for them
InitHook ==
  InitFiles /\ nowMs = StepMs /\ upstream = {} /\ syncUrl \in BOOLEAN
  /\ SYNC_ENABLED \in BOOLEAN

PipelineStep(p) ==
  \/ BeginCollect(p) \/ CollectStages(p) \/ CollectThrows(p) \/ AppendSnapshot(p)
  \/ SyncAfterProbe(p)

NextHook == HookTick \/ HandlerBegin \/ HandlerSpawn \/ \E p \in Procs : PipelineStep(p)

SpecHook == InitHook /\ [][NextHook]_vars

\* a never-ending stream of hook events, handled one after another while the
\* clock goes on: the gateway keeps emitting message:sent and calls the handler
\* for each, and a handler that has written the state goes on to its spawn
SpecHookFair ==
  /\ InitHook /\ [][NextHook]_vars
  /\ WF_vars(HookTick) /\ WF_vars(HandlerBegin) /\ WF_vars(HandlerSpawn)

\* normalizeApiFactEvent applied to a line of api-facts.jsonl, as the loop of
\* loadApiFactEvents applies it; api-events.jsonl stands for the answer
NormalizeRaw ==
  /\ \E raw \in RawFacts :
       /\ apiFacts' = <<raw>>
       /\ apiEvents' = normalizeApiFactEvent(raw).event
  /\ UNCHANGED <<upstream, syncUrl, nowMs, skillCursor, skillEvents, snapshots,
                 syncCursor, sink, lastSync, lastProbe>>
  /\ UNCHANGED lockVars

\* the event is retained as sanitizeApiFactFields(event), and the next run
\* applies normalizeApiFactEvent to that line
NormalizeProjection ==
  /\ apiEvents # <<>>
  /\ \E raw \in {sanitizeApiFactFields(apiEvents[1])} :
       /\ apiFacts' = <<raw>>
       /\ apiEvents' = normalizeApiFactEvent(raw).event
  /\ UNCHANGED <<upstream, syncUrl, nowMs, skillCursor, skillEvents, snapshots,
                 syncCursor, sink, lastSync, lastProbe>>
  /\ UNCHANGED lockVars

\* normalizeApiFactEvent over facts whose time is written in every way toMs reads
InitNormalize ==
  InitFiles /\ nowMs = StepMs /\ upstream = {"timestamps"} /\ syncUrl = FALSE /\ SYNC_ENABLED = TRUE

NextNormalize == NormalizeRaw \/ NormalizeProjection

SpecNormalize == InitNormalize /\ [][NextNormalize]_vars

\* `probe.mjs --once` runs one after another over a live log source, each step
\* of a run being one file operation, and a run may be ended by process exit at
\* any step
InitCrash == InitFiles /\ nowMs = StepMs /\ upstream = {"logs"} /\ syncUrl = FALSE /\ SYNC_ENABLED = TRUE

CrashStep(p) ==
  \/ StartOnce(p) \/ BeginCollect(p) \/ SkillAppendFacts(p) \/ SkillCursorWrite(p)
  \/ RetentionRead(p) \/ RetentionWrite(p) \/ AppendSnapshot(p) \/ Kill(p)

NextCrash == Tick \/ \E p \in Procs : CrashStep(p)

SpecCrash == InitCrash /\ [][NextCrash]_vars

\* a burst of hook events whose handlers run side by side
InitBurst ==
  InitFiles /\ nowMs = StepMs /\ upstream = {} /\ syncUrl = FALSE /\ SYNC_ENABLED = TRUE

HandlerStep(p) == HandlerReadState(p) \/ HandlerWriteState(p) \/ HandlerSpawnChild(p)

NextBurst == HookTick \/ \E p \in Procs : HandlerStep(p)

SpecBurst == InitBurst /\ [][NextBurst]_vars

\* probe runs over a fact file whose writer reports the outcome of a call in any
\* of the ways the fact contract allows
InitOutcomes ==
  InitFiles /\ nowMs = 0 /\ upstream = {"outcomes"} /\ syncUrl = FALSE /\ SYNC_ENABLED = TRUE

NextOutcomes == Tick \/ WriteApiFact \/ Probe

SpecOutcomes == InitOutcomes /\ [][NextOutcomes]_vars

\* probe runs over a fact file with repeated keys and with records the loader
\* rejects
InitDedupe ==
  /\ InitFiles /\ nowMs = 0 /\ syncUrl = FALSE /\ SYNC_ENABLED = TRUE
  /\ upstream = {"duplicates", "unfiltered"}

NextDedupe == Tick \/ WriteApiFact \/ Probe

SpecDedupe == InitDedupe /\ [][NextDedupe]_vars

\* the P0 keys a snapshot row has values for: the status alone, the first six
\* keys, all eleven
FilledKeys ==
  {{"service_status_now"},
   {P0_CORE_KEYS[k] : k \in 1..6},
   {P0_CORE_KEYS[k] : k \in 1..Len(P0_CORE_KEYS)}}

\* the rows of the snapshot files: a timestamp, and every P0 key with the value
\* of the row or null
SnapshotRows ==
  {[key \in {"ts"} \cup {P0_CORE_KEYS[k] : k \in 1..Len(P0_CORE_KEYS)} |->
      IF key = "ts" THEN t ELSE IF key \in filled THEN <<v>> ELSE Null] :
     t \in {0, HourMs, LOOKBACK_MS + HourMs}, filled \in FilledKeys,
     v \in {1, 2}}

\* a probe, at some time, has appended the row to the snapshot file of its day
AddSnapshotRow ==
  /\ p0Status = NoReport
  /\ Len(snapshots) < MaxSnapshotRows
  /\ \E row \in SnapshotRows : snapshots' = Append(snapshots, row)
  /\ UNCHANGED <<upstream, syncUrl, nowMs, apiFacts, apiEvents, skillCursor, skillEvents,
                 syncCursor, sink, lastSync, lastProbe>>
  /\ UNCHANGED lockVars

\* one run of p0-core-status.mjs, which ends without a report when there is no row
P0CoreStatus ==
  /\ p0Status = NoReport
  /\ Len(snapshots) > 0
  /\ p0Status' = p0CoreStatus(snapshots, nowMs)
  /\ UNCHANGED <<pipelineVars, lock, pc, mode, seen, held, buf, hookState, hook, SYNC_ENABLED,
                 dashboard, disk, io>>

InitCoverage ==
  InitFiles /\ nowMs = 2 * StepMs /\ upstream = {} /\ syncUrl = FALSE /\ SYNC_ENABLED = TRUE

NextCoverage == AddSnapshotRow \/ P0CoreStatus

SpecCoverage == InitCoverage /\ [][NextCoverage]_vars

\* requests of the dashboard over the snapshots the table may hold
InitDashboard ==
  InitFiles /\ nowMs = StepMs /\ upstream = {} /\ syncUrl = FALSE /\ SYNC_ENABLED = TRUE

NextDashboard == DashboardGet \/ DashboardMap

SpecDashboard == InitDashboard /\ [][NextDashboard]_vars

\* overlapping pipelines writing the sync cursor and the snapshot log, and a
\* process that reads them
InitWrites ==
  InitFiles /\ nowMs = StepMs /\ upstream = {} /\ syncUrl = FALSE /\ SYNC_ENABLED = TRUE

NextWrites ==
  \/ \E w \in Writers : writeJsonAtomic(w) \/ appendFileSync(w) \/ writeSync(w) \/ renameSync(w)
  \/ \E path \in {syncCursorPath, snapshotPath} : readFileSync(path)

SpecWrites == InitWrites /\ [][NextWrites]_vars

\* the aggregation applied to a list of events, at the time StepMs
InitMetrics ==
  /\ InitFiles /\ nowMs = StepMs /\ syncUrl = FALSE /\ SYNC_ENABLED = TRUE
  /\ upstream \in {{"metricEvents"}, {"groupEvents"}}

NextMetrics == AddEvent \/ Aggregate

SpecMetrics == InitMetrics /\ [][NextMetrics]_vars

(***************************************************************************)
(* Properties                                                              *)
(***************************************************************************)
Failures == {"500", "neterr"}

\* the event is covered by the sync cursor: selectUnsentApiEvents passes over it
CoveredBySync(ev, cursor) ==
  \/ ev.ts_ms < cursor.api_last_ts_ms
  \/ ev.ts_ms = cursor.api_last_ts_ms /\ Has(cursor.api_last_keys, ev.dedupe_key)

InStore(ev) == Has(apiEvents, ev)

Delivered(ev) == sanitizeApiEvent(ev) \in sink

StoreEvents == {normalizeApiFactEvent(raw).event[1] : raw \in CleanFacts}

\* C1: when the sink answers the API-events POST with a non-2xx status or the
\* network call fails, sync-cursor.json is left as it was and a runOnce over the
\* same store selects the same batch again.
C1_FailedPostKeepsCursor ==
  [][(lastSync' # lastSync /\ lastSync'.apiResp \in Failures)
       => /\ syncCursor' = syncCursor
          /\ selectUnsentApiEvents(apiEvents', syncCursor').unsent = lastSync'.batch
          /\ sink' = sink]_vars

\* a failed API-events POST of a non-empty batch, after an earlier run advanced
\* the cursor
C1_Witness ==
  /\ lastSync.apiResp = "500"
  /\ Len(lastSync.batch) > 0
  /\ syncCursor.api_last_ts_ms > 0

\* C2: after a runOnce whose API-events POST returned 2xx, the cursor on disk
\* covers every event of the delivered batch and the next runOnce selects none
\* of them, whatever the outcome of the snapshot POST.
C2_DeliveredBatchIsCovered ==
  [][(lastSync' # lastSync /\ lastSync'.apiResp = "2xx")
       => /\ \A i \in 1..Len(lastSync'.batch) :
               CoveredBySync(lastSync'.batch[i], syncCursor')
          /\ Elems(selectUnsentApiEvents(apiEvents', syncCursor').unsent)
               \cap Elems(lastSync'.batch) = {}]_vars

InPipeline(p) == pc[p] \in {"stages", "appendSnapshot"}

\* the process is inside the sampling loop of runLoop
InLoop(p) ==
  mode[p] = "loop" /\ pc[p] \in {"collectSnapshot", "stages", "appendSnapshot", "sleep"}

\* probe.lock exists and is stale: its content is not a positive number, or no
\* process has that PID
StaleLock(content) ==
  content # <<>> /\ (content[1] <= 0 \/ ~Running(content[1]))

\* C4: whatever the interleaving of hook events and of the pipelines spawned for
\* them, at most one pipeline run (collectSnapshot through appendSnapshot) is in
\* progress on the out-dir.
C4_OnePipelineAtATime ==
  Cardinality({p \in Procs : mode[p] = "once" /\ InPipeline(p)}) <= 1

\* C5: with lockAlive, writeLock and clearLock as separate steps of interleaved
\* runLoop invocations, at most one invocation is inside the sampling loop, and
\* probe.lock holds the PID of the invocation that is inside it.
C5_OneLoopHoldsLock ==
  /\ Cardinality({p \in Procs : InLoop(p)}) <= 1
  /\ \A p \in Procs : InLoop(p) => lock = <<p>>

\* C6: a runLoop invocation that finds probe.lock stale (dead PID, or content
\* that is not a positive number) goes on as if the file were absent: it writes
\* its own PID over it and enters the sampling loop.
C6_StaleLockIsTakenOver ==
  [][\A p \in Procs :
       /\ (pc[p] = "lockAlive" /\ (lock = <<>> \/ StaleLock(lock))
             /\ pc'[p] \notin {"lockAlive", "killed"})
            => pc'[p] = "writeLock"
       /\ (pc[p] = "writeLock" /\ pc'[p] \notin {"writeLock", "killed"})
            => (lock' = <<p>> /\ InLoop(p)')]_vars

\* an invocation is in the sampling loop under its own PID after lockAlive read
\* the PID of a dead process from probe.lock
C6_Witness ==
  \E p \in Procs :
    /\ InLoop(p) /\ lock = <<p>>
    /\ seen[p] # <<>> /\ seen[p][1] \in Procs \ {p}

\* C7: a runLoop invocation that finds the lock held by a live process ends at
\* once: in that step and ever after it appends no snapshot, changes no fact log
\* or cursor file and leaves probe.lock as it is.
C7_RefusedRunChangesNothing ==
  [][\A p \in Procs :
       /\ (pc[p] = "lockAlive" /\ lockAlive /\ pc'[p] \notin {"lockAlive", "killed"})
            => /\ pc'[p] = "exit"
               /\ UNCHANGED <<lock, apiFacts, apiEvents, skillCursor, skillEvents,
                              snapshots, syncCursor>>
       /\ pc[p] = "exit" => pc'[p] = "exit"]_vars

\* an invocation has been refused while the holder of the lock is still running
C7_Witness ==
  \E p \in Procs :
    /\ mode[p] = "loop" /\ pc[p] = "exit"
    /\ seen[p] # <<>> /\ lock = seen[p] /\ Running(lock[1]) /\ InLoop(lock[1])

(***************************************************************************)
(* Properties of the extraction and of the cursors                         *)
(***************************************************************************)
\* the fact is covered by the skill cursor
CoveredBySkill(ev, cursor) ==
  \/ ev.ts_ms < cursor.last_ts_ms
  \/ ev.ts_ms = cursor.last_ts_ms /\ Has(cursor.last_keys, ev.dedupe_key)

\* a probe run has just been made
ProbeRan == Len(snapshots') > Len(snapshots)

FirstN(s, n) == IF Len(s) <= n THEN s ELSE SubSeq(s, 1, n)

\* the stored events selectUnsentApiEvents may send under the cursor, ascending
Uncovered(allEvents, cursor) ==
  SelectSeq(SortByTs(allEvents),
            LAMBDA ev : ev.dedupe_key # NoKey /\ ~CoveredBySync(ev, cursor))

\* C8: extracting twice over the same log window leaves the fact log that
\* extracting once leaves, and skill-events.jsonl never holds two records with
\* the same dedupe_key, whatever the two log sources supply.
C8_ExtractionIdempotentNoDuplicates ==
  /\ \A i, j \in 1..Len(skillEvents) :
       skillEvents[i].dedupe_key = skillEvents[j].dedupe_key => i = j
  /\ \A w \in LogWindows :
       \A once \in {collectSkillUsageMetrics(w[1], w[2], skillCursor, skillEvents, nowMs)} :
          collectSkillUsageMetrics(w[1], w[2], once.cursor, once.events, nowMs).events
            = once.events

\* C9: no probe run decreases last_ts_ms of skill-cursor.json and no sync run
\* decreases api_last_ts_ms of sync-cursor.json.
C9_CursorTimestampsNeverDecrease ==
  [][/\ skillCursor'.last_ts_ms >= skillCursor.last_ts_ms
     /\ syncCursor'.api_last_ts_ms >= syncCursor.api_last_ts_ms]_vars

\* a probe run that saw only facts older than the skill cursor
C9_Witness ==
  /\ skillCursor.last_ts_ms > 0
  /\ lastProbe.facts # <<>>
  /\ \A i \in 1..Len(lastProbe.facts) : lastProbe.facts[i].ts_ms < skillCursor.last_ts_ms

\* C10 as claimed: in both cursor advances the accepted facts are exactly the
\* facts the cursor does not cover.
C10_SkippedIffCovered ==
  /\ selectUnsentApiEvents(apiEvents, syncCursor).unsent = Uncovered(apiEvents, syncCursor)
  /\ \A w \in LogWindows :
       \A facts \in {factEventsOf(w[1] \o w[2])} :
          skillAdvance(facts, skillCursor).incremental
            = SelectSeq(SortByTs(facts), LAMBDA ev : ~CoveredBySkill(ev, skillCursor))

\* C10 amended: the skill advance accepts exactly the facts its cursor does not
\* cover and appends them to skill-events.jsonl ahead of the retention rewrite;
\* the sync selection accepts the first batchSize events, in ascending timestamp
\* order, that have a dedupe key and that its cursor does not cover.
C10_SkippedIffCoveredUpToBatch ==
  /\ [](selectUnsentApiEvents(apiEvents, syncCursor).unsent
          = FirstN(Uncovered(apiEvents, syncCursor), batchSize))
  /\ [][ProbeRan =>
          /\ lastProbe'.incremental
               = SelectSeq(SortByTs(lastProbe'.facts),
                           LAMBDA ev : ~CoveredBySkill(ev, skillCursor))
          /\ skillEvents' = SelectSeq(skillEvents \o lastProbe'.incremental,
                              LAMBDA e : e.ts_ms >= nowMs - skillEventRetentionMs)]_vars

\* the store holds an event the sync cursor covers, which the selection passes
\* over, and one it does not cover, which the selection returns
C10_Witness ==
  /\ \E i \in 1..Len(apiEvents) : CoveredBySync(apiEvents[i], syncCursor)
  /\ Len(selectUnsentApiEvents(apiEvents, syncCursor).unsent) = batchSize
  /\ Len(apiEvents) > batchSize

(***************************************************************************)
(* Properties of the cursor value                                          *)
(***************************************************************************)
\* the greatest of base and the timestamps of the facts
MaxTsOf(evs, base) ==
  CHOOSE m \in {base} \cup {evs[i].ts_ms : i \in 1..Len(evs)} :
    m >= base /\ \A i \in 1..Len(evs) : m >= evs[i].ts_ms

\* the dedupe keys of the facts at the timestamp, in order
KeysAt(evs, ts) ==
  Bind(SelectSeq(evs, LAMBDA e : e.ts_ms = ts),
       LAMBDA at : [i \in 1..Len(at) |-> at[i].dedupe_key])

\* the keys observed at the timestamp an advance ends on, in the order they were
\* added: the stored ones when the timestamp stays, then the accepted ones
ObservedKeys(oldTs, oldKeys, accepted) ==
  Bind(MaxTsOf(accepted, oldTs), LAMBDA m :
    NewSet((IF m = oldTs THEN oldKeys ELSE <<>>) \o KeysAt(accepted, m)))

\* s is the last entries of all, and every entry of all if all has at most n
IsLastOf(s, all, n) ==
  /\ Len(s) = (IF Len(all) <= n THEN Len(all) ELSE n)
  /\ \A i \in 1..Len(s) : s[i] = all[Len(all) - Len(s) + i]

\* a sync run has just written an advanced API cursor
SyncAdvanced ==
  \/ syncCursor'.api_last_ts_ms # syncCursor.api_last_ts_ms
  \/ syncCursor'.api_last_keys # syncCursor.api_last_keys
  \/ /\ lastSync' # lastSync
     /\ lastSync'.apiResp = "2xx" /\ lastSync'.snapResp \notin Failures

\* C11 as claimed: after a cursor advance the stored timestamp is the maximum of
\* the previous one and of the accepted facts, and the stored key set is the set
\* of keys observed at that timestamp.
C11_CursorIsMaxAndKeysAtMax ==
  [][/\ ProbeRan =>
          /\ skillCursor'.last_ts_ms
               = MaxTsOf(lastProbe'.incremental, skillCursor.last_ts_ms)
          /\ Elems(skillCursor'.last_keys)
               = Elems(ObservedKeys(skillCursor.last_ts_ms, skillCursor.last_keys,
                                    lastProbe'.incremental))
     /\ SyncAdvanced =>
          /\ syncCursor'.api_last_ts_ms
               = MaxTsOf(lastSync'.batch, syncCursor.api_last_ts_ms)
          /\ Elems(syncCursor'.api_last_keys)
               = Elems(ObservedKeys(syncCursor.api_last_ts_ms, syncCursor.api_last_keys,
                                    lastSync'.batch))]_vars

\* C11 amended: the stored timestamp is that maximum, and the stored keys are
\* the keys observed at it, or the last KeyCap of them when there are more.
C11_CursorIsMaxAndLastKeysAtMax ==
  [][/\ ProbeRan =>
          /\ skillCursor'.last_ts_ms
               = MaxTsOf(lastProbe'.incremental, skillCursor.last_ts_ms)
          /\ \A all \in {ObservedKeys(skillCursor.last_ts_ms, skillCursor.last_keys,
                                      lastProbe'.incremental)} :
                IsLastOf(skillCursor'.last_keys, all, KeyCap)
     /\ SyncAdvanced =>
          /\ syncCursor'.api_last_ts_ms
               = MaxTsOf(lastSync'.batch, syncCursor.api_last_ts_ms)
          /\ \A all \in {ObservedKeys(syncCursor.api_last_ts_ms, syncCursor.api_last_keys,
                                      lastSync'.batch)} :
                IsLastOf(syncCursor'.api_last_keys, all, KeyCap)]_vars

\* a run has accepted facts at the cursor timestamp and the oldest stored key
\* has gone from the key set
C11_Witness ==
  /\ lastProbe.incremental # <<>>
  /\ snapshots # <<>>
  /\ Len(skillCursor.last_keys) = KeyCap
  /\ skillCursor.last_keys[1] > 1

C13_RetentionWindowAfterProbe ==
  [][ProbeRan =>
       /\ \A i \in 1..Len(skillEvents') :
            skillEvents'[i].ts_ms >= nowMs - skillEventRetentionMs
       /\ \A i \in 1..Len(apiEvents') :
            /\ apiEvents'[i].ts_ms >= nowMs - apiEventRetentionMs
            /\ apiEvents'[i].ts_ms <= nowMs + FutureSlackMs
       /\ \A i \in 1..Len(apiFacts') :
            /\ apiFacts'[i].ts.value >= nowMs - apiEventRetentionMs
            /\ apiFacts'[i].ts.value <= nowMs + FutureSlackMs]_vars

\* a run has just accepted a fact older than the retention window and dropped it
\* in its rewrite, keeping a younger one
C13_Witness ==
  /\ snapshots # <<>>
  /\ nowMs = snapshots[Len(snapshots)].ts
  /\ \E i \in 1..Len(lastProbe.incremental) :
       /\ lastProbe.incremental[i].ts_ms < nowMs - skillEventRetentionMs
       /\ ~Has(skillEvents, lastProbe.incremental[i])
  /\ skillEvents # <<>>


\* C14: under any interleaving of probe runs sharing one out-dir, a fact that is
\* in the skill fact log and within retention is still in it after every step
\* of every run: a fact leaves the log only by age.
C14_FactLeavesOnlyByAge ==
  [][\A i \in 1..Len(skillEvents) :
       skillEvents[i].ts_ms >= nowMs - skillEventRetentionMs
         => Has(skillEvents', skillEvents[i])]_vars


\* the API metrics of a snapshot are Gap
ApiGap(api) ==
  \/ api.api_call_total_24h = Null
  \/ api.api_failure_total_24h = Null
  \/ api.api_error_rate_24h = Null

\* C15: once api-facts.jsonl has held a record in some run (the snapshot of that
\* run reports the API metrics as available), every later snapshot reports
\* non-null API metrics; and a snapshot taken before any run found a record
\* reports Gap.
C15_GapIffNeverPopulated ==
  [][ProbeRan =>
       /\ (Len(apiFacts) > 0 \/ lastProbe.api.api_metrics_available)
            => ~ApiGap(lastProbe'.api)
       /\ (Len(apiFacts) = 0 /\ ~lastProbe.api.api_metrics_available)
            => ApiGap(lastProbe'.api)]_vars


\* the events of the store that lie in the trailing 24 h of now
InTrailing24h(events, now) ==
  SelectSeq(events, LAMBDA ev : ev.ts_ms >= now - 24 * HourMs /\ ev.ts_ms <= now)

HasExtraField(rec, allowed) == (DOMAIN rec) \ allowed # {}

\* every raw fact of the file with this dedupe key has a non-whitelisted field
OnlyWithExtraField(rawFacts, key) ==
  \A j \in 1..Len(rawFacts) :
     rawFacts[j].dedupe_key = key => HasExtraField(rawFacts[j], API_EVENT_ALLOWED_FIELDS)

\* the loading stage drops a raw fact with a non-whitelisted field entirely
LoadDropsExtraField ==
  ProbeRan =>
    /\ \A i \in 1..Len(apiFacts) :
         OnlyWithExtraField(apiFacts, apiFacts[i].dedupe_key)
           => /\ \A k \in 1..Len(apiEvents') :
                   apiEvents'[k].dedupe_key # apiFacts[i].dedupe_key
              /\ \A k \in 1..Len(apiFacts') :
                   apiFacts'[k].dedupe_key # apiFacts[i].dedupe_key
    /\ \A k \in 1..Len(apiFacts') : ~HasExtraField(apiFacts'[k], API_EVENT_ALLOWED_FIELDS)

FieldValues(rec) ==
  {KeyText(rec.dedupe_key)}
  \cup (IF "path_template" \in DOMAIN rec THEN {rec.path_template} ELSE {})
  \cup (IF "headers" \in DOMAIN rec THEN {rec.headers} ELSE {})

\* some field value of the record matches a sensitive pattern
HasSensitiveValue(rec) == \E v \in FieldValues(rec) : containsSensitiveApiFactValue(v)

\* C18: a fact with a field value that matches a sensitive pattern is rejected
\* with the reason "sensitive", also when it has a non-whitelisted key, and no
\* record with such a value is in api-events.jsonl, in a sync batch or in the
\* sink.
C18_SensitiveFactRejected ==
  /\ [][ProbeRan =>
          \A i \in 1..Len(apiFacts) :
             HasSensitiveValue(apiFacts[i])
               => Has(lastProbe'.rejected, [raw |-> apiFacts[i], reason |-> "sensitive"])]_vars
  /\ [](/\ \A k \in 1..Len(apiEvents) : ~HasSensitiveValue(apiEvents[k])
        /\ \A k \in 1..Len(lastSync.batch) : ~HasSensitiveValue(lastSync.batch[k])
        /\ \A item \in sink : ~HasSensitiveValue(item))


\* C19: service_status_now of a snapshot is a function of the inputs of its own
\* cycle: down when the gateway RPC probe is not ok, degraded when it is ok and
\* there are unexpected restarts in the last 24 h or active critical system
\* errors, running otherwise, whatever the previous snapshot said.
C19_StatusFromCycleInputs ==
  [][ProbeRan =>
       \A in \in {lastProbe'.status} :
         /\ snapshots'[Len(snapshots')].service_status_now = in.service_status_now
         /\ in.gateway_rpc_ok <=> in.gateway = "rpcOk"
         /\ ~in.gateway_rpc_ok => in.service_status_now = "down"
         /\ (/\ in.gateway_rpc_ok
             /\ \/ in.restart_unexpected_count_24h > 0
                \/ in.errors_critical_active_count > 0)
              => in.service_status_now = "degraded"
         /\ (/\ in.gateway_rpc_ok
             /\ in.restart_unexpected_count_24h = 0
             /\ in.errors_critical_active_count = 0)
              => in.service_status_now = "running"]_vars

\* a snapshot reporting down is followed by one reporting running
C19_Witness ==
  /\ Len(snapshots) = 2
  /\ snapshots[1].service_status_now = "down"
  /\ snapshots[2].service_status_now = "running"
  /\ lastProbe.status.gateway_rpc_ok

\* a probe run has ended, with a snapshot or with the exception
ProbeEnded == ProbeRan \/ (lastProbe'.exit = "threw" /\ lastProbe.exit # "threw")

\* C20: a probe run made while the log source, the CLI or the gateway is not
\* reachable still completes and appends exactly one snapshot, whose
\* service_status_now is down when the control plane is not reachable.
C20_UnreachableStillSnapshots ==
  [][(ProbeEnded /\ upstream \cap {"cliDown", "logsDown", "gatewayDown"} # {}) =>
       /\ Len(snapshots') = Len(snapshots) + 1
       /\ upstream \cap {"cliDown", "gatewayDown"} # {}
            => snapshots'[Len(snapshots')].service_status_now = "down"]_vars

(***************************************************************************)
(* Properties of the hook handler                                          *)
(***************************************************************************)
\* the handler has just handled a supported event
Handled == hook.pc = "idle" /\ hook' # hook

\* a pipeline has just been spawned
Spawned == {p \in Procs : pc[p] = "idle" /\ pc'[p] # "idle"}

\* C21: an event handled less than DEBOUNCE_MS after the stored lastTriggeredMs
\* (> 0) spawns no pipeline and leaves hook-trigger-state.json as it is, so an
\* event handled DEBOUNCE_MS or more after the last accepted trigger is accepted
\* however short the time since the last event seen.
C21_DebouncedEventChangesNothing ==
  [][Handled =>
       /\ (hookState.lastTriggeredMs > 0 /\ nowMs - hookState.lastTriggeredMs < DEBOUNCE_MS)
            => /\ hookState' = hookState
               /\ Spawned = {}
               /\ hook'.pc = "idle" /\ hook'.outcome = "skipped"
       /\ (hookState.lastTriggeredMs > 0 /\ nowMs - hookState.lastTriggeredMs >= DEBOUNCE_MS)
            => hook'.outcome = "accepted"]_vars

\* an event has been accepted less than DEBOUNCE_MS after an event that was
\* skipped
C21_Witness ==
  /\ hook.outcome = "accepted" /\ hook.spawned = 1
  /\ hook.seenMs > 0
  /\ hook.nowMs - hook.seenMs < DEBOUNCE_MS

\* the process has just started sync-outbound.mjs
SyncStarted(p) == pc'[p] = "sync" /\ pc[p] # "sync"

Count24h(events, now, P(_)) ==
  Cardinality({i \in 1..Len(events) :
                 /\ events[i].ts_ms >= now - 24 * HourMs
                 /\ events[i].ts_ms <= now
                 /\ P(events[i])})

\* the ratio is num / den and lies within [0, 1]
IsRatio(ratio, num, den) ==
  /\ ratio = <<[num |-> num, den |-> den]>>
  /\ 0 <= num /\ num <= den /\ den > 0

\* the list has been aggregated with the source connected
Aggregated == lastProbe.exit = "ok" /\ lastProbe.api.api_metrics_available

\* C23: aggregated with the source connected, the call total is the number of
\* events with ts in [now - 24 h, now], successes and failures add up to it, the
\* rate-limit total does not exceed it, and when it is > 0 the error rate, the
\* 429 ratio and the unknown rate are failures, rate-limited events and events
\* of unknown provider or endpoint group over the total, each within [0, 1].
C23_TotalsAndRatios ==
  Aggregated =>
    \A total \in {Count24h(apiEvents, nowMs, LAMBDA ev : TRUE)} :
      \A m \in {lastProbe.api} :
        /\ m.api_call_total_24h = <<total>>
        /\ m.api_failure_total_24h = <<Count24h(apiEvents, nowMs, LAMBDA ev : ev.is_failure)>>
        /\ m.api_success_total_24h[1] + m.api_failure_total_24h[1] = total
        /\ m.api_rate_limit_total_24h = <<Count24h(apiEvents, nowMs, LAMBDA ev : ev.is_429)>>
        /\ m.api_rate_limit_total_24h[1] <= total
        /\ total > 0 =>
             /\ IsRatio(m.api_error_rate_24h, m.api_failure_total_24h[1], total)
             /\ IsRatio(m.api_429_ratio_24h, m.api_rate_limit_total_24h[1], total)
             /\ IsRatio(m.api_unknown_rate_24h,
                        Count24h(apiEvents, nowMs,
                                 LAMBDA ev : ev.provider = "unknown"
                                             \/ ev.endpoint_group = "unknown"),
                        total)

\* three calls of lark/message_send and one of unknown/unknown have been
\* aggregated: the total is 4 and the unknown rate 1/4
C23_Witness ==
  /\ Aggregated
  /\ lastProbe.api.api_call_total_24h = <<4>>
  /\ lastProbe.api.api_unknown_rate_24h = <<[num |-> 1, den |-> 4]>>
  /\ Count24h(apiEvents, nowMs, LAMBDA ev : groupKey(ev) = "lark/message_send") = 3

\* the places of the list whose events the aggregation counts for some window
CountedAt(events, now) ==
  {i \in 1..Len(events) : in24hOf(events[i].ts_ms, now) \/ inTodayOf(events[i].ts_ms, now)}

\* the place at which the group is first seen among the counted events
FirstSeen(events, now, key) ==
  CHOOSE i \in CountedAt(events, now) :
    /\ groupKey(events[i]) = key
    /\ \A j \in CountedAt(events, now) : groupKey(events[j]) = key => i <= j

\* the calls of the group in the trailing 24 h
CallsOf(events, now, key) == Count24h(events, now, LAMBDA ev : groupKey(ev) = key)

\* C24: endpoint_group_top5_calls_24h lists at most 5 groups (5, or every counted
\* group when there are fewer), each once and under its key
\* provider/endpoint_group with the number of its events in the trailing 24 h, in
\* descending order of that number and, among equal numbers, in the order in
\* which the groups were first seen; no group that is not listed has more calls
\* than a listed one.
C24_TopGroupsRanked ==
  Aggregated =>
    \A top \in {lastProbe.api.endpoint_group_top5_calls_24h[1]} :
      \A keys \in {{groupKey(apiEvents[i]) : i \in CountedAt(apiEvents, nowMs)}} :
        /\ Len(top) <= 5
        /\ Len(top) = (IF Cardinality(keys) < 5 THEN Cardinality(keys) ELSE 5)
        /\ \A i \in 1..Len(top) :
             /\ top[i].endpoint_group \in keys
             /\ top[i].calls_24h = CallsOf(apiEvents, nowMs, top[i].endpoint_group)
        /\ \A i, j \in 1..Len(top) :
             i < j =>
               /\ top[i].endpoint_group # top[j].endpoint_group
               /\ \/ top[i].calls_24h > top[j].calls_24h
                  \/ /\ top[i].calls_24h = top[j].calls_24h
                     /\ FirstSeen(apiEvents, nowMs, top[i].endpoint_group)
                          < FirstSeen(apiEvents, nowMs, top[j].endpoint_group)
        /\ \A k \in 1..Len(apiEvents) :
             (\A i \in 1..Len(top) : top[i].endpoint_group # groupKey(apiEvents[k]))
               => \A i \in 1..Len(top) :
                     CallsOf(apiEvents, nowMs, groupKey(apiEvents[k])) <= top[i].calls_24h

\* six groups have been aggregated: five are listed, the first with more calls
\* than the second, the second to the fifth with equal calls, and the sixth is
\* left out
C24_Witness ==
  /\ Aggregated
  /\ \E top \in {lastProbe.api.endpoint_group_top5_calls_24h[1]} :
       /\ Len(top) = 5
       /\ top[1].calls_24h > top[2].calls_24h
       /\ top[2].calls_24h = top[5].calls_24h /\ top[5].calls_24h > 0
       /\ \E k \in 1..Len(apiEvents) :
            /\ in24hOf(apiEvents[k].ts_ms, nowMs)
            /\ \A i \in 1..5 : top[i].endpoint_group # groupKey(apiEvents[k])

(***************************************************************************)
(* Properties of the normalization of the outcome of a call                *)
(***************************************************************************)
\* the raw fact has no parseable status code: none, not a number, or a number
\* outside [100, 599]
NoParseableStatus(raw) ==
  \/ "status_code" \notin DOMAIN raw
  \/ raw.status_code.typeof # "number"
  \/ raw.status_code.value < 100
  \/ raw.status_code.value > 599

\* C25: every fact that normalizes and has no parseable status code (absent, not
\* a number, outside [100, 599]) has is_failure = true in its normalized event,
\* whatever its other fields, and so has every event of api-events.jsonl
\* without a status code.
C25_NoStatusIsFailure ==
  /\ \A i \in 1..Len(apiFacts) :
       \A n \in {normalizeApiFactEvent(apiFacts[i])} :
          (n.reason = "ok" /\ NoParseableStatus(apiFacts[i])) => n.event[1].is_failure
  /\ \A k \in 1..Len(apiEvents) :
       apiEvents[k].status_code = NullValue => apiEvents[k].is_failure

\* C26: every fact that normalizes and has status_code 429 has is_429 = true in
\* its normalized event, with or without an is_429 field in the input, and a
\* probe run counts every such event of the trailing 24 h in
\* api_rate_limit_total_24h.
C26_Status429IsRateLimited ==
  /\ [](/\ \A i \in 1..Len(apiFacts) :
             \A n \in {normalizeApiFactEvent(apiFacts[i])} :
                (/\ n.reason = "ok"
                 /\ "status_code" \in DOMAIN apiFacts[i]
                 /\ apiFacts[i].status_code = Num(429)) => n.event[1].is_429
        /\ \A k \in 1..Len(apiEvents) :
             apiEvents[k].status_code = Num(429) => apiEvents[k].is_429)
  /\ [][ProbeRan =>
          lastProbe'.api.api_rate_limit_total_24h[1]
            >= Count24h(apiEvents', nowMs, LAMBDA ev : ev.status_code = Num(429))]_vars

(***************************************************************************)
(* Properties of the writes to shared files                                *)
(***************************************************************************)
\* the text is that of whole documents, one after the other
WholeDocs(text) ==
  /\ Len(text) % 2 = 0
  /\ \A i \in 1..Len(text) :
       i % 2 = 1 => /\ text[i].doc # 0
                    /\ text[i].piece = 1
                    /\ text[i + 1] = [doc |-> text[i].doc, piece |-> 2]

\* what a read returned is a complete content of the file: no file, one whole
\* document for the cursor, whole rows for the log
CompleteContent(read) ==
  \/ ~read.exists
  \/ read.path = syncCursorPath /\ Len(read.text) = 2 /\ WholeDocs(read.text)
  \/ read.path = snapshotPath /\ WholeDocs(read.text)

\* the content under the name of a shared file
ContentOf(d, path) == IF d.dir[path] = NoFile THEN <<>> ELSE d.files[d.dir[path]]

\* C27: every write to a shared state file is a write to a temporary file
\* followed by a rename (the content under the name of the cursor and of the
\* snapshot log changes in a rename only), and under any interleaving of a
\* writer with a reader or with a second writer using the same temporary path
\* a read returns a complete content, never a partial write.
C27_WritesAreTempThenRename ==
  /\ [](CompleteContent(io[0]))
  /\ [][\A path \in {syncCursorPath, snapshotPath} :
          ContentOf(disk', path) # ContentOf(disk, path)
            => \E w \in Writers : io[w].pc = "rename" /\ io'[w].pc = "idle"]_vars

(***************************************************************************)
(* Properties of p0-core-status                                            *)
(***************************************************************************)
\* the timestamp of the latest snapshot row
LatestTs == CHOOSE t \in {snapshots[i].ts : i \in 1..Len(snapshots)} :
              \A i \in 1..Len(snapshots) : snapshots[i].ts <= t

\* the rows, by position in file order, of the 24 hours ending at the latest
\* row that have a value for the key
FilledInLookback(key) ==
  {i \in 1..Len(snapshots) :
     /\ snapshots[i].ts >= LatestTs - 24 * HourMs
     /\ snapshots[i].ts <= LatestTs
     /\ snapshots[i][key] # Null}

\* C28: in the report of p0-core-status every P0 core key is ready exactly when
\* some snapshot row of the 24 hours ending at the latest row's timestamp has a
\* non-null value for it; its sample is then the value of the most recent such
\* row, the later one in file order among equal timestamps, and null otherwise;
\* and p0_core_coverage_ratio is ready keys / 11 rounded to 4 decimals.
C28_ReadyWithin24hLookback ==
  p0Status.ok =>
    /\ \A k \in 1..Len(P0_CORE_KEYS) :
         \A f \in {p0Status.fields[k]} : \A rows \in {FilledInLookback(P0_CORE_KEYS[k])} :
           /\ f.key = P0_CORE_KEYS[k]
           /\ f.status = (IF rows # {} THEN "ready" ELSE "gap")
           /\ rows = {} => f.sample = Null
           /\ rows # {} =>
                \E i \in rows :
                  /\ f.sample = snapshots[i][f.key]
                  /\ \A j \in rows :
                       \/ snapshots[j].ts < snapshots[i].ts
                       \/ snapshots[j].ts = snapshots[i].ts /\ j <= i
    /\ p0Status.p0_core_total = 11
    /\ p0Status.p0_core_ready
         = Cardinality({k \in 1..11 : FilledInLookback(P0_CORE_KEYS[k]) # {}})
    /\ 2 * (p0Status.p0_core_coverage_ratio * 11 - 10000 * p0Status.p0_core_ready) <= 11
    /\ 2 * (10000 * p0Status.p0_core_ready - p0Status.p0_core_coverage_ratio * 11) <= 11

\* three rows in file order: one 25 hours before the latest with all keys, the
\* latest with the status alone, and one exactly 24 hours before the latest
\* with six keys; six keys are ready, the status with the sample of the latest
\* row and the others with that of the third, and the ratio is 0.5455
C28_Witness ==
  /\ p0Status.ok
  /\ Len(snapshots) = 3
  /\ snapshots[1].ts = 0 /\ snapshots[1].data_freshness_delay_min # Null
  /\ snapshots[2].ts = LOOKBACK_MS + HourMs /\ snapshots[2].service_status_now = <<1>>
  /\ snapshots[2].api_call_total_24h = Null
  /\ snapshots[3].ts = HourMs /\ snapshots[3].trigger_total_24h = <<2>>
  /\ p0Status.p0_core_ready = 6
  /\ p0Status.p0_core_coverage_ratio = 5455
  /\ p0Status.fields[2].sample = <<1>>
  /\ p0Status.fields[3].sample = <<2>>
  /\ p0Status.fields[11].status = "gap"

(***************************************************************************)
(* Properties of the Gap metrics                                           *)
(***************************************************************************)
\* the metric is rendered as a Gap: null, "--" and the note
RenderedAsGap(m) ==
  /\ m.value = NullValue
  /\ m.display = "--"
  /\ "note" \in DOMAIN m
  /\ m.note = GAP_NOTE

\* the metric objects of the response and of what the frontend mapped it to
EmittedMetrics ==
  UNION {UNION {{sections[section][name] : name \in DOMAIN sections[section]} :
                  section \in DOMAIN sections} :
           sections \in Elems(dashboard.contract) \cup Elems(dashboard.data)}

\* C29: every metric object with readiness Gap, in the response of the dashboard
\* function and in what the frontend mapping makes of a response, has value
\* null, display "--" and the note of GAP_NOTE; none carries a number.
C29_GapMetricsCarryNull ==
  \A m \in EmittedMetrics : m.readiness = "Gap" => RenderedAsGap(m)

(***************************************************************************)
(* Properties of a sync without a URL                                      *)
(***************************************************************************)
\* C30: while no sync URL is configured, no step, a runOnce of the sync
\* included, sends anything to the sink or changes sync-cursor.json (runOnce
\* writes back the cursor it read, API part and snapshot_last_ts), and the
\* events a run selected are still selected as unsent after it.
C30_NoUrlSyncIsNoOp ==
  [][~syncUrl =>
       /\ sink' = sink
       /\ syncCursor' = syncCursor
       /\ lastSync'.apiResp = "none" /\ lastSync'.snapResp = "none"
       /\ lastSync' # lastSync
            => selectUnsentApiEvents(apiEvents', syncCursor').unsent = lastSync'.batch]_vars

\* a runOnce without a URL has found unsent events and a snapshot row, and the
\* sink is empty and the cursor the fallback
C30_Witness ==
  /\ ~syncUrl
  /\ lastSync.batch # <<>>
  /\ Len(snapshots) > 0
  /\ sink = {}
  /\ syncCursor = FallbackSyncCursor
  /\ selectUnsentApiEvents(apiEvents, syncCursor).unsent = lastSync.batch

(***************************************************************************)
(* Properties of the aggregation as a whole                                *)
(***************************************************************************)
\* the totals, the three ratios and the top-5 list of an aggregation result
GapFields(api) ==
  {api.api_call_total_24h, api.api_call_total_today_tokyo, api.api_success_total_24h,
   api.api_failure_total_24h, api.api_rate_limit_total_24h, api.api_error_rate_24h,
   api.api_429_ratio_24h, api.api_unknown_rate_24h, api.endpoint_group_top5_calls_24h}

\* the zero counts of a run that loaded nothing
NoStats == [validFactCount |-> 0, sensitiveDropped |-> 0, invalidDropped |-> 0]

\* C31: an aggregation called with the source connected returns
\* api_metrics_available = true, api_collection_mode = "fact-event-structured"
\* and non-null totals, ratios and top-5 list; called with the source not
\* connected it returns false, "fact-only-not-connected" and null for every one
\* of those fields, whatever the events.
C31_AllOrNothing ==
  [][(lastProbe.exit = "none" /\ lastProbe'.exit = "ok") =>
       \A api \in {lastProbe'.api} : \A sourceConnected \in BOOLEAN :
         api = computeApiMetricsFromFactEvents(apiEvents, nowMs, sourceConnected, NoStats)
           => /\ api.api_metrics_available = sourceConnected
              /\ sourceConnected =>
                   /\ api.api_collection_mode = "fact-event-structured"
                   /\ Null \notin GapFields(api)
              /\ ~sourceConnected =>
                   /\ api.api_collection_mode = "fact-only-not-connected"
                   /\ GapFields(api) = {Null}]_vars

\* an aggregation with the source connected over events none of which lies in
\* the trailing 24 h: the totals and the ratios are 0, not null
C31_Witness ==
  /\ lastProbe.exit = "ok"
  /\ apiEvents # <<>>
  /\ lastProbe.api.api_metrics_available
  /\ lastProbe.api.api_collection_mode = "fact-event-structured"
  /\ lastProbe.api.api_call_total_24h = <<0>>
  /\ lastProbe.api.api_429_ratio_24h = <<[num |-> 0, den |-> 1]>>
  /\ Null \notin GapFields(lastProbe.api)

(***************************************************************************)
(* Properties of the batch selection                                       *)
(***************************************************************************)
\* the events of the store that the cursor does not cover
UncoveredBy(cursor) == {ev \in Elems(apiEvents) : ~CoveredBySync(ev, cursor)}

LatestSnapshotTs ==
  Bind(snapshotRows(nowMs), LAMBDA rows : IF Len(rows) > 0 THEN rows[Len(rows)].ts ELSE NoTs)

\* a step of runOnce, the only writer of the cursor, the sink and lastSync
IsRunOnce == <<syncCursor, sink, lastSync>>' # <<syncCursor, sink, lastSync>>

\* a runOnce started now, with these answers of the sink, posts the snapshot
PostsSnapshot(apiResp, snapResp) ==
  runOnceResult(syncCursor, apiEvents, snapshotRows(nowMs), apiResp, snapResp).snapPosted

\* what a runOnce does about the snapshot, up to the case of a failed POST
SnapshotSentOnChange ==
  /\ lastSync'.snapResp # "none" =>
       LatestSnapshotTs # NoTs /\ LatestSnapshotTs # syncCursor.snapshot_last_ts
  /\ lastSync'.snapResp = "2xx" =>
       /\ syncCursor'.snapshot_last_ts = LatestSnapshotTs
       /\ \A a \in Responses, b \in Responses : ~PostsSnapshot(a, b)'
  /\ lastSync'.snapResp \in Failures =>
       syncCursor'.snapshot_last_ts = syncCursor.snapshot_last_ts

C33_WitnessSent ==
  /\ lastSync.snapResp = "2xx"
  /\ LatestSnapshotTs # NoTs
  /\ syncCursor.snapshot_last_ts = LatestSnapshotTs

(***************************************************************************)
(* Properties of the loader's dedupe                                       *)
(***************************************************************************)
\* the lines of api-facts.jsonl that normalizeApiFactEvent accepts and whose
\* timestamp lies in [now - retention, now + 60 s]
ValidInWindow ==
  {i \in 1..Len(apiFacts) :
     \E n \in {normalizeApiFactEvent(apiFacts[i])} :
        /\ n.event # <<>>
        /\ n.event[1].ts_ms >= nowMs - apiEventRetentionMs
        /\ n.event[1].ts_ms <= nowMs + FutureSlackMs}

\* line i is the one of its key to keep: no valid in-window line of the same
\* key is newer, or as new and earlier in the file
KeptLine(i) ==
  /\ i \in ValidInWindow
  /\ \A j \in ValidInWindow :
        apiFacts[j].dedupe_key = apiFacts[i].dedupe_key =>
          \/ apiFacts[j].ts.value < apiFacts[i].ts.value
          \/ apiFacts[j].ts.value = apiFacts[i].ts.value /\ i <= j

\* C34: after a probe run has loaded the API facts, api-events.jsonl holds, in
\* ascending timestamp order and once each, the events of the lines of
\* api-facts.jsonl that are valid, in the window and the newest of their
\* dedupe_key (the first in file order among equally new ones), and
\* api-facts.jsonl holds the whitelisted fields of the same events in the same
\* order; so neither file holds two records with one dedupe_key.
C34_OneRecordPerKeyNewestFirstOnTie ==
  [][ProbeRan =>
       /\ \A k \in 1..Len(apiEvents') :
            /\ \E i \in 1..Len(apiFacts) :
                 KeptLine(i) /\ apiEvents'[k] = normalizeApiFactEvent(apiFacts[i]).event[1]
            /\ \A m \in 1..Len(apiEvents') :
                 /\ m # k => apiEvents'[m].dedupe_key # apiEvents'[k].dedupe_key
                 /\ k <= m => apiEvents'[k].ts_ms <= apiEvents'[m].ts_ms
       /\ \A i \in ValidInWindow :
            \E k \in 1..Len(apiEvents') : apiEvents'[k].dedupe_key = apiFacts[i].dedupe_key
       /\ Len(apiFacts') = Len(apiEvents')
       /\ \A k \in 1..Len(apiFacts') :
            apiFacts'[k] = sanitizeApiFactFields(apiEvents'[k])]_vars

\* the first run, at the second timestamp, has read two valid facts, both in
\* the window, and kept one event for the two
C34_Witness ==
  /\ upstream = {"duplicates", "unfiltered"}
  /\ nowMs = StepMs
  /\ Len(snapshots) = 1 /\ snapshots[1].ts = StepMs
  /\ lastProbe.api.api_events_valid_fact_total = 2
  /\ Len(apiEvents) = 1 /\ Len(apiFacts) = 1
  /\ apiEvents[1].ts_ms = StepMs

(***************************************************************************)
(* Properties of the release of probe.lock                                 *)
(***************************************************************************)
\* the places of a runLoop invocation between writeLock and its end
InsideLock == {"collectSnapshot", "stages", "appendSnapshot", "sleep", "clearLock"}

\* C35: a runLoop invocation that has written the lock and ends without being
\* killed, after its last sample or after collectSnapshot threw, ends with
\* probe.lock removed; the lock never names an invocation that has ended in
\* that way, and an invocation is refused only for a lock whose holder is still
\* between its writeLock and its end.
C35_FinishedRunLeavesNoLock ==
  /\ [][\A p \in Procs :
          /\ (mode[p] = "loop" /\ pc[p] \in InsideLock /\ pc'[p] = "exit") => lock' = <<>>
          /\ (pc[p] = "lockAlive" /\ pc'[p] = "exit") =>
               /\ lock # <<>>
               /\ lock[1] \in Procs
               /\ pc[lock[1]] \in InsideLock]_vars
  /\ [](\A p \in Procs : (mode[p] = "loop" /\ pc[p] = "exit") => lock # <<p>>)

\* an invocation that found no lock and wrote its own has ended, and another
\* invocation, not refused, holds the lock and is about to sample
C35_Witness ==
  \E p \in Procs, q \in Procs :
     /\ mode[p] = "loop" /\ pc[p] = "exit" /\ seen[p] = <<>>
     /\ mode[q] = "loop" /\ pc[q] = "collectSnapshot"
     /\ lock = <<q>>

(***************************************************************************)
(* Properties of the anomaly flags                                         *)
(***************************************************************************)
\* C36: in what every probe run puts into its snapshot, openclaw_system_anomaly
\* is true exactly when service_status_now is not "running", and
\* clawview_pipeline_anomaly is true exactly when skill_calls_collection_mode is
\* not "fact-event-structured".
C36_AnomalyFlagsFollowStatusAndMode ==
  lastProbe.exit = "ok" =>
    /\ lastProbe.anomaly.openclaw_system_anomaly
          <=> lastProbe.status.service_status_now # "running"
    /\ lastProbe.anomaly.clawview_pipeline_anomaly
          <=> lastProbe.anomaly.skill_calls_collection_mode # "fact-event-structured"

\* a run has found the gateway down with both counters at zero, and skill facts
\* in the log: the system flag is set and the pipeline flag is not
C36_Witness ==
  /\ lastProbe.exit = "ok"
  /\ lastProbe.status.service_status_now = "down"
  /\ lastProbe.status.restart_unexpected_count_24h = 0
  /\ lastProbe.status.errors_critical_active_count = 0
  /\ lastProbe.anomaly.openclaw_system_anomaly
  /\ lastProbe.anomaly.skill_calls_collection_mode = "fact-event-structured"
  /\ ~lastProbe.anomaly.clawview_pipeline_anomaly

\* a run has found the system running and no skill fact anywhere: the pipeline
\* flag alone is set
C36_WitnessPipeline ==
  /\ lastProbe.exit = "ok"
  /\ lastProbe.status.service_status_now = "running"
  /\ ~lastProbe.anomaly.openclaw_system_anomaly
  /\ lastProbe.anomaly.clawview_pipeline_anomaly

(***************************************************************************)
(* Properties of interleaved handlers                                      *)
(***************************************************************************)
\* the accepted triggers: the handler and the position in its list of spawns
AcceptedTriggers == {t \in Procs \X (1..MaxHookSteps + 1) : t[2] <= Len(buf[t[1]])}

\* C37: the times of any two accepted triggers, of one handler or of two, are
\* at least DEBOUNCE_MS apart.
C37_AcceptedTriggersDebounceApart ==
  \A t \in AcceptedTriggers, u \in AcceptedTriggers :
     t # u =>
       \/ buf[t[1]][t[2]] - buf[u[1]][u[2]] >= DEBOUNCE_MS
       \/ buf[u[1]][u[2]] - buf[t[1]][t[2]] >= DEBOUNCE_MS

(***************************************************************************)
(* Properties of a never-ending stream of hook events                      *)
(***************************************************************************)
\* the last time the clock of the model reaches
Horizon == StepMs + MaxHookSteps * HookStepMs

\* what lastTriggeredMs may hold: 0 for no trigger yet, or a time of the clock
TriggerTimes == {0} \cup {StepMs + k * HookStepMs : k \in 0..MaxHookSteps}

\* C38: while events keep being handled one after another and the clock goes
\* on, every accepted trigger that the clock can still leave DEBOUNCE_MS behind
\* is followed by another accepted trigger (and the first event is accepted);
\* an event handled DEBOUNCE_MS or more after the last accepted trigger is
\* accepted, and an event that is skipped leaves lastTriggeredMs as it was.
C38_TriggersKeepBeingAccepted ==
  /\ \A T \in TriggerTimes :
        (hookState.lastTriggeredMs = T /\ T + DEBOUNCE_MS <= Horizon)
          ~> (hookState.lastTriggeredMs > T)
  /\ [][Handled =>
          /\ (hookState.lastTriggeredMs <= 0
                \/ nowMs - hookState.lastTriggeredMs >= DEBOUNCE_MS)
               => hook'.outcome = "accepted" /\ hookState'.lastTriggeredMs = nowMs
          /\ hook'.outcome = "skipped" => hookState' = hookState]_vars

\* a second trigger has been accepted, DEBOUNCE_MS or more after the first and
\* less than DEBOUNCE_MS after an event that was skipped
C38_Witness ==
  /\ hook.outcome = "accepted" /\ hook.spawned = 1
  /\ hookState.lastTriggeredMs = hook.nowMs
  /\ hook.nowMs >= StepMs + DEBOUNCE_MS
  /\ Cardinality({p \in Procs : pc[p] # "idle"}) = 2
  /\ hook.seenMs > 0 /\ hook.nowMs - hook.seenMs < DEBOUNCE_MS

(***************************************************************************)
(* Properties of a run abandoned inside the skill stage                    *)
(***************************************************************************)
\* the run p was ended between its append to skill-events.jsonl and its write
\* of skill-cursor.json
AbandonedBeforeCursor(p) ==
  /\ pc[p] = "killed"
  /\ buf[p] # <<>>
  /\ "last_ts_ms" \in DOMAIN buf[p][1]

\* C39: when a run was ended between its append and its cursor write, the next
\* run, over the same log window, appends none of the facts that run appended.
C39_AbandonedRunFactsNotAppendedTwice ==
  [][\A q \in Procs :
       (/\ pc[q] = "stages" /\ pc'[q] = "cursorWrite"
        /\ \E p \in Procs : AbandonedBeforeCursor(p)
        /\ lastProbe'.facts = lastProbe.facts)
       => \A i \in 1..Len(lastProbe.incremental) :
             ~Has(lastProbe'.incremental, lastProbe.incremental[i])]_vars

(***************************************************************************)
(* Properties of normalizeApiFactEvent applied to its own answer           *)
(***************************************************************************)
\* C40: normalization is idempotent: for every raw fact normalizeApiFactEvent
\* accepts, normalizing the whitelisted projection (sanitizeApiFactFields) of
\* the event it returned gives that same event, so that a second load leaves
\* api-facts.jsonl and api-events.jsonl as the first wrote them.
C40_NormalizingProjectionGivesSameEvent ==
  \A i \in 1..Len(apiEvents) :
    \E again \in {normalizeApiFactEvent(sanitizeApiFactFields(apiEvents[i]))} :
       again.event = <<apiEvents[i]>>

==========================================================================
